---- MODULE Spec2Model ----
(***************************************************************************)
(* Model of the zen watch daemon: the control loop of cmd/watch, the setup *)
(* and cleanup reconcilers of internal/reconciler, the two workqueues and  *)
(* their dispatchers, the Version-Control Mutex and the on-disk state      *)
(* (worktrees, CLAUDE.local.md, pr_cache.json).                            *)
(*                                                                         *)
(* Strings the code parses (PR keys, repo short names, worktree names) are *)
(* sequences of one-character strings, so that formatting and parsing are  *)
(* computed and not assumed.  Opaque strings (titles, logins, base paths)  *)
(* are TLA+ strings.                                                       *)
(*                                                                         *)
(* Time is counted in units of TimeUnitSeconds, and every stored instant   *)
(* is kept relative to the current instant: notBefore = k says "k units    *)
(* from now", 0 says "now or earlier".  The code only ever compares a      *)
(* stored instant with the current time, so instants in the past need not  *)
(* be told apart, and the passing of one unit (Tick) lowers every stored   *)
(* instant that is still ahead by one.                                     *)
(***************************************************************************)
EXTENDS Integers, Sequences, FiniteSets, TLC

\* ------------------------------------------------------------------------
\* Characters, integers as text
\* ------------------------------------------------------------------------
DigitChars == <<"0", "1", "2", "3", "4", "5", "6", "7", "8", "9">>

IsDigit(c) == \E i \in 1..10 : DigitChars[i] = c

DigitVal(c) == (CHOOSE i \in 1..10 : DigitChars[i] = c) - 1

RECURSIVE ItoaNat(_)
ItoaNat(n) == IF n < 10 THEN <<DigitChars[n + 1]>>
              ELSE ItoaNat(n \div 10) \o <<DigitChars[(n % 10) + 1]>>

\* fmt's %d verb
Itoa(n) == IF n < 0 THEN <<"-">> \o ItoaNat(0 - n) ELSE ItoaNat(n)

RECURSIVE DigitsVal(_)
DigitsVal(s) == IF s = <<>> THEN 0
                ELSE 10 * DigitsVal(SubSeq(s, 1, Len(s) - 1)) + DigitVal(s[Len(s)])

AllDigits(s) == Len(s) > 0 /\ \A i \in 1..Len(s) : IsDigit(s[i])

\* strconv.Atoi: an optional sign followed by at least one decimal digit
Atoi(s) ==
  LET body == IF Len(s) > 0 /\ s[1] \in {"+", "-"} THEN Tail(s) ELSE s
      neg  == Len(s) > 0 /\ s[1] = "-"
  IN IF AllDigits(body)
       THEN [ok |-> TRUE, n |-> IF neg THEN 0 - DigitsVal(body) ELSE DigitsVal(body)]
       ELSE [ok |-> FALSE, n |-> 0]

\* ------------------------------------------------------------------------
\* internal/reconciler/keys.go
\* ------------------------------------------------------------------------
MakePRKey(repo, prNumber) == repo \o <<":">> \o Itoa(prNumber)

\* a split at the last ':' of the key
SplitAtLast(key) ==
  IF \E i \in 1..Len(key) : key[i] = ":"
    THEN LET i == CHOOSE j \in 1..Len(key) :
                    key[j] = ":" /\ \A k \in (j + 1)..Len(key) : key[k] # ":"
         IN <<SubSeq(key, 1, i - 1), SubSeq(key, i + 1, Len(key))>>
    ELSE <<key>>

\* strings.SplitN(key, ":", 2)
SplitN2(key) ==
  IF \E i \in 1..Len(key) : key[i] = ":"
    THEN LET i == CHOOSE j \in 1..Len(key) :
                    key[j] = ":" /\ \A k \in 1..(j - 1) : key[k] # ":"
         IN <<SubSeq(key, 1, i - 1), SubSeq(key, i + 1, Len(key))>>
    ELSE <<key>>

ParsePRKey(key) ==
  LET parts == SplitN2(key)
  IN IF Len(parts) # 2
       THEN [err |-> TRUE, repo |-> <<>>, number |-> 0]
       ELSE LET a == Atoi(parts[2])
            IN IF ~a.ok THEN [err |-> TRUE, repo |-> <<>>, number |-> 0]
                        ELSE [err |-> FALSE, repo |-> parts[1], number |-> a.n]

\* ------------------------------------------------------------------------
\* internal/config/config.go
\* ------------------------------------------------------------------------
DefaultConcurrency == 2
DefaultMaxRetries == 5

GetConcurrency(w) == IF w.Concurrency > 0 THEN w.Concurrency ELSE DefaultConcurrency

\* a GetMaxRetries that grants one attempt more
GetMaxRetriesPlusOne(w) ==
  IF w.MaxRetries > 0 THEN w.MaxRetries + 1 ELSE DefaultMaxRetries + 1

GetMaxRetries(w) == IF w.MaxRetries > 0 THEN w.MaxRetries ELSE DefaultMaxRetries

RepoNames(c) == DOMAIN c.Repos

RepoFullName(c, short) ==
  IF short \in DOMAIN c.Repos THEN c.Repos[short].FullName ELSE short

RepoBasePath(c, short) ==
  IF short \in DOMAIN c.Repos THEN c.Repos[short].BasePath ELSE ""

\* a configuration that takes every login for an author
IsAuthorAnyone(c, login) == TRUE

IsAuthor(c, login) == login \in c.Authors

\* ------------------------------------------------------------------------
\* Paths.  filepath.Join(basePath, name) is the pair <<basePath, name>>.
\* ------------------------------------------------------------------------
PrInfix == <<"-", "p", "r", "-">>

\* fmt.Sprintf("%s-pr-%d", repo, prNumber)
WorktreeName(repo, prNumber) == repo \o PrInfix \o Itoa(prNumber)

WorktreePath(basePath, repo, prNumber) == <<basePath, WorktreeName(repo, prNumber)>>

\* fmt.Sprintf("%s/%d", repo, pr), the key of pr_cache.json
CacheKey(repo, prNumber) == repo \o <<"/">> \o Itoa(prNumber)

\* ------------------------------------------------------------------------
\* Workqueue (spec 4.1).  A queue is a set of items; seq is the rank of the
\* item in enqueue order.
\* ------------------------------------------------------------------------
\* a queue made one item larger
CapacityOffByOne == 10 + 1

QueueCapacity == 10
BackoffBaseSeconds == 30
BackoffCapSeconds == 600
\* seconds per clock unit: the clock counts backoff base periods
TimeUnitSeconds == BackoffBaseSeconds

Min(a, b) == IF a < b THEN a ELSE b

RECURSIVE Pow2(_)
Pow2(n) == IF n <= 0 THEN 1 ELSE 2 * Pow2(n - 1)

\* a backoff that doubles without a cap
BackoffUncapped(a) == BackoffBaseSeconds * Pow2(a - 1)

\* nominal delay, in seconds, before the retry that follows failed attempt a
BackoffSeconds(a) == Min(BackoffBaseSeconds * Pow2(a - 1), BackoffCapSeconds)

\* the delays, in seconds, within 20 % of the nominal delay
JitterSeconds(a) ==
  {s \in 0..((6 * BackoffCapSeconds) \div 5) :
      4 * BackoffSeconds(a) <= 5 * s /\ 5 * s <= 6 * BackoffSeconds(a)}

\* the delays, in clock units, within 20 % of the nominal delay
JitterWindow(a) ==
  {d \in 0..((6 * BackoffCapSeconds) \div (5 * TimeUnitSeconds)) :
      /\ 4 * BackoffSeconds(a) <= 5 * d * TimeUnitSeconds
      /\ 5 * d * TimeUnitSeconds <= 6 * BackoffSeconds(a)}

QKeys(q) == {it.key : it \in q}

QItem(q, key) == CHOOSE it \in q : it.key = key

\* runs and waited are history, not state of the queue: the reconciliations
\* started since the key was enqueued, and the time the item has spent
\* backing off since its last attempt
NewItem(q, key, priority) ==
  [key |-> key, priority |-> priority, attempts |-> 0, notBefore |-> 0,
   seq |-> Cardinality(q) + 1, leased |-> FALSE, again |-> FALSE,
   runs |-> 0, waited |-> 0]

\* an Enqueue that does not look for the key
QEnqueueBlind(q, key, priority) ==
  [err |-> FALSE,
   q |-> q \cup {[key |-> key, priority |-> priority, attempts |-> 0,
                  notBefore |-> 0, seq |-> Cardinality(q) + 1, leased |-> FALSE,
                  again |-> FALSE, runs |-> 0, waited |-> 0]}]

\* Enqueue(key, options)
QEnqueue(q, key, priority) ==
  IF key \in QKeys(q)
    THEN LET it == QItem(q, key)
             up == IF priority < it.priority THEN priority ELSE it.priority
         IN [err |-> FALSE,
             q |-> (q \ {it}) \cup
                   {[it EXCEPT !.priority = up,
                               !.again = it.leased \/ it.again]}]
    ELSE IF Cardinality(q) >= QueueCapacity
           THEN [err |-> TRUE, q |-> q]
           ELSE [err |-> FALSE, q |-> q \cup {NewItem(q, key, priority)}]

\* a queue that shows the items that are backing off as well
QEligibleEarly(q) == {it \in q : ~it.leased}

\* a queue that never offers again an item that has failed
QEligibleFresh(q) == {it \in q : ~it.leased /\ it.notBefore <= 0 /\ it.attempts = 0}

\* the items a dispatcher can see: not leased, earliest-eligible time <= now
QEligible(q) == {it \in q : ~it.leased /\ it.notBefore <= 0}

\* a Lease() in enqueue order alone
QNextFifo(q) ==
  CHOOSE it \in {e \in q : ~e.leased /\ e.notBefore <= 0} :
    \A o \in {e \in q : ~e.leased /\ e.notBefore <= 0} : it.seq <= o.seq

\* Lease(): smallest priority first, enqueue order within a priority
QNext(q) ==
  CHOOSE it \in QEligible(q) :
    \A o \in QEligible(q) :
      \/ it.priority < o.priority
      \/ it.priority = o.priority /\ it.seq <= o.seq

QLease(q, key) ==
  LET it == QItem(q, key)
  IN (q \ {it}) \cup {[it EXCEPT !.leased = TRUE, !.runs = @ + 1]}

\* a queue that ends the lease of a finished item and keeps the item
QRemoveNothing(q, key) == {[it EXCEPT !.leased = it.leased /\ it.key # key] : it \in q}

\* the ranks after an item left the queue
Renumber(q) ==
  {[it EXCEPT !.seq = Cardinality({o \in q : o.seq <= it.seq})] : it \in q}

QRemove(q, key) == Renumber({it \in q : it.key # key})

\* a queue that forgets the Enqueue that arrived during the lease
QArrivedLost(q, key) == {it \in q : it.key # key}

\* the item whose lease ended and that stays queued with a fresh history,
\* because an Enqueue arrived while it was leased
QArrivedAgain(q, key) ==
  LET it == QItem(q, key)
  IN (q \ {it}) \cup {[it EXCEPT !.leased = FALSE, !.again = FALSE,
                                 !.attempts = 0, !.notBefore = 0,
                                 !.runs = 0, !.waited = 0]}

\* a queue that takes every error for a retriable one
QDropsAtCapOnly(result, attempt, max) == attempt >= max

\* the failed item is dropped: the error is terminal, or this was the last
\* attempt allowed
QDrops(result, attempt, max) == result = "terminal" \/ attempt >= max

\* Complete(handle, result); delay is the jittered backoff
QComplete(q, key, result, max, delay) ==
  LET it == QItem(q, key)
  IN IF it.again THEN QArrivedAgain(q, key)
     ELSE IF result = "success" THEN QRemove(q, key)
     ELSE IF QDrops(result, it.attempts + 1, max) THEN QRemove(q, key)
     ELSE (q \ {it}) \cup {[it EXCEPT !.leased = FALSE,
                                      !.attempts = it.attempts + 1,
                                      !.notBefore = delay, !.waited = 0]}

\* one unit of time passes
QTick(q) ==
  {IF it.notBefore > 0
     THEN [it EXCEPT !.notBefore = @ - 1, !.waited = @ + 1]
     ELSE it : it \in q}

\* ------------------------------------------------------------------------
\* The world of the model
\* ------------------------------------------------------------------------
RepoA == <<"a">>
RepoX == <<"x">>
RepoY == <<"y">>
BaseB == "/b"

\* config.yaml: repository o/a under the short name a, repository o/x under
\* the short name y
ReposCfg ==
  (RepoA :> [FullName |-> "o/a", BasePath |-> BaseB]) @@
  (RepoY :> [FullName |-> "o/x", BasePath |-> BaseB])

\* the watch section of config.yaml: 0 is a field left out
Watch(conc, retries, days) ==
  [Concurrency |-> conc, MaxRetries |-> retries, CleanupAfterDays |-> days]

Config(watch) == [Repos |-> ReposCfg, Authors |-> {"alice"}, Watch |-> watch]

\* the review requests the hosting service can report
Review(n, repoName, login, title) ==
  [Number |-> n, Title |-> title, Author |-> login, RepoName |-> repoName]

ReviewA1 == Review(1, RepoA, "alice", "t1")
ReviewA2 == Review(2, RepoA, "alice", "t2")
ReviewX3 == Review(3, RepoX, "alice", "t3")

VARIABLES
  remote,        \* the review requests the hosting service holds for the user
  cfg,           \* the global cfg of package cmd; both reconcilers hold it too
  concurrency,   \* concurrency of watchDaemon, read at startup
  maxRetries,    \* maxRetries of watchDaemon, read at startup
  mainpc,        \* the handler the control loop of watchDaemon is in
  setupQueue,    \* inmem.NewWorkQueue(10) of watchDaemon
  cleanupQueue,  \* inmem.NewWorkQueue(10) of watchDaemon
  prData,        \* SetupReconciler.prData
  seenPRs,       \* seenPRs of watchDaemon
  lastCheck,     \* ~/.zen/state/last_check.json
  worktrees,     \* the worktree directories on disk, each with its clone
  docs,          \* the worktrees that hold a CLAUDE.local.md
  prCache,       \* ~/.zen/state/pr_cache.json
  gitMu,         \* worktree.GitMu is locked
  workers,       \* the reconciliations in flight, one per worker slot
  sent           \* the desktop notifications sent

\* the host of the daemon: its files and processes, and what watchDaemon
\* builds from the configuration when it starts
VARIABLES
  pidFile,       \* ~/.zen/state/watch.pid: the pid it holds, 0 without a file
  procs,         \* the `zen watch daemon` processes
  starts,        \* the `zen watch start` invocations
  configFile,    \* ~/.zen/config.yaml
  recCfg,        \* the cfg of the setup and of the cleanup reconciler
  tickers        \* the periods of pollTicker, dispatchTicker, cleanupTicker

hostVars == <<pidFile, procs, starts, configFile, recCfg, tickers>>

vars == <<remote, cfg, concurrency, maxRetries, mainpc, setupQueue, cleanupQueue, prData,
          seenPRs, lastCheck, worktrees, docs, prCache, gitMu, workers, sent, hostVars>>

\* the specifications of the loop and of the reconcilers leave the host aside
HostOff ==
  /\ pidFile = 0
  /\ procs = <<>>
  /\ starts = <<>>
  /\ configFile = "missing"
  /\ recCfg = <<>>
  /\ tickers = <<>>

\* worker slot 0 serves the cleanup dispatcher, the others the setup one
MaxWorkers == 2
WorkerIds == 0..MaxWorkers

EmptyMap == [x \in {} |-> 0]

NoPre == [wt |-> FALSE, doc |-> FALSE, meta |-> "unset"]

\* a reconciliation: its position in Reconcile and its locals; and, as
\* history, what it found at its call (pre) and has done so far: run a git
\* subprocess (ranGit), written CLAUDE.local.md (wroteDoc), failed to write
\* it or the cache file (logged), changed the disk, the cache or sent a
\* notification (touched)
Call(pc, kind, key, pre) ==
  [pc |-> pc, kind |-> kind, key |-> key, repo |-> <<>>, number |-> 0,
   base |-> "", title |-> "", author |-> "", loaded |-> EmptyMap,
   result |-> "none", ranGit |-> FALSE, wroteDoc |-> FALSE, logged |-> {},
   touched |-> FALSE, pre |-> pre]

Idle == Call("idle", "none", <<>>, NoPre)

NoCheck == [PRCount |-> -1, SeenPRs |-> {}]

\* ------------------------------------------------------------------------
\* internal/reconciler/setup.go
\* ------------------------------------------------------------------------
loopVars == <<remote, cfg, concurrency, maxRetries, mainpc, seenPRs, lastCheck, hostVars>>
queueVars == <<setupQueue, cleanupQueue>>

Path(w) == WorktreePath(workers[w].base, workers[w].repo, workers[w].number)

\* filepath.Join(basePath, repo), the primary clone
OriginPath(w) == <<workers[w].base, workers[w].repo>>

\* os.Stat(path) succeeds
Exists(path) == \E d \in worktrees : d.path = path

At(w, kind, pc) == workers[w].kind = kind /\ workers[w].pc = pc

Returned(self, result) == [self EXCEPT !.pc = "ret", !.result = result]

\* notify.Send: the notifications sent are kept as a set, and a notification
\* sent once more is kept as a repetition of it
Send(s, msg) == s \cup {IF msg \in s THEN <<"repeated", msg>> ELSE msg}

\* a Reconcile that returns "repo not configured" unclassified
SetupRepoErrorPlain == "retriable"

\* workqueue.NonRetriableError(fmt.Errorf("repo %s not configured", repo), ...)
SetupRepoError == "terminal"

\* Reconcile up to the call of ensureWorktree: the three terminal errors
SetupResolved(c, data, self) ==
  LET p == ParsePRKey(self.key)
  IN IF p.err THEN Returned(self, "terminal")
     ELSE IF RepoBasePath(c, p.repo) = "" THEN Returned(self, SetupRepoError)
     ELSE IF self.key \notin DOMAIN data THEN Returned(self, "terminal")
     ELSE [self EXCEPT !.pc = "stat1", !.repo = p.repo, !.number = p.number,
                       !.base = RepoBasePath(c, p.repo),
                       !.title = data[self.key].Title,
                       !.author = data[self.key].Author]

SetupStart(w) ==
  /\ At(w, "setup", "start")
  /\ workers' = [workers EXCEPT ![w] = SetupResolved(cfg, prData, workers[w])]
  /\ UNCHANGED <<loopVars, queueVars, prData, worktrees, docs, prCache, gitMu, sent>>

\* ensureWorktree: os.Stat(worktreePath) before the lock
Stat1(w) ==
  /\ At(w, "setup", "stat1")
  /\ workers' = [workers EXCEPT ![w].pc =
                   IF Exists(Path(w)) THEN "inject" ELSE "lock"]
  /\ UNCHANGED <<loopVars, queueVars, prData, worktrees, docs, prCache, gitMu, sent>>

\* wt.GitMu.Lock()
GitMuLock(w) ==
  /\ At(w, "setup", "lock")
  /\ ~gitMu
  /\ gitMu' = TRUE
  /\ workers' = [workers EXCEPT ![w].pc = "stat2"]
  /\ UNCHANGED <<loopVars, queueVars, prData, worktrees, docs, prCache, sent>>

\* an ensureWorktree that unlocks at its last line and not in a defer: the
\* returns on the errors of the subprocesses leave the mutex locked
UnlockNotDeferred(exit) == exit \in {"fetch", "add"}

\* GitMu after ensureWorktree returned at `exit`: the deferred
\* wt.GitMu.Unlock() runs at every return
MuAfterReturn(exit) == FALSE

\* the re-check under the lock; git fetch starts when the path is missing
Stat2(w) ==
  /\ At(w, "setup", "stat2")
  /\ IF Exists(Path(w))
       THEN /\ workers' = [workers EXCEPT ![w].pc = "inject"]
            /\ gitMu' = MuAfterReturn("exists")
       ELSE /\ workers' = [workers EXCEPT ![w].pc = "fetch", ![w].ranGit = TRUE]
            /\ UNCHANGED gitMu
  /\ UNCHANGED <<loopVars, queueVars, prData, worktrees, docs, prCache, sent>>

\* a Reconcile that wraps the error of ensureWorktree in NonRetriableError
EnsureWorktreeErrorWrapped == "terminal"

\* Reconcile returns the error of ensureWorktree unclassified
EnsureWorktreeError == "retriable"

\* git fetch origin +pull/N/head:pr-N exits
Fetch(w) ==
  /\ At(w, "setup", "fetch")
  /\ \E ok \in BOOLEAN :
       IF ok THEN /\ workers' = [workers EXCEPT ![w].pc = "add"]
                  /\ UNCHANGED gitMu
             ELSE /\ workers' = [workers EXCEPT ![w] = Returned(@, EnsureWorktreeError)]
                  /\ gitMu' = MuAfterReturn("fetch")
  /\ UNCHANGED <<loopVars, queueVars, prData, worktrees, docs, prCache, sent>>

\* git worktree add <path> pr-N exits
WorktreeAdd(w) ==
  /\ At(w, "setup", "add")
  /\ \E ok \in BOOLEAN :
       IF ok THEN /\ workers' = [workers EXCEPT ![w].pc = "rmlock",
                                                ![w].touched = TRUE]
                  /\ worktrees' = worktrees \cup {[path |-> Path(w), origin |-> OriginPath(w)]}
                  /\ UNCHANGED gitMu
             ELSE /\ workers' = [workers EXCEPT ![w] = Returned(@, EnsureWorktreeError)]
                  /\ gitMu' = MuAfterReturn("add")
                  /\ UNCHANGED worktrees
  /\ UNCHANGED <<loopVars, queueVars, prData, docs, prCache, sent>>

\* os.Remove of the new worktree's index.lock, then the return
RmLock(w) ==
  /\ At(w, "setup", "rmlock")
  /\ workers' = [workers EXCEPT ![w].pc = "inject"]
  /\ gitMu' = MuAfterReturn("done")
  /\ UNCHANGED <<loopVars, queueVars, prData, worktrees, docs, prCache, sent>>

\* an ensureContextInjected that renders the document at every call
InjectAlways(path, written) == TRUE

\* ensureContextInjected: CLAUDE.local.md is written unless os.Stat finds it
InjectNeeded(path, written) == path \notin written

\* a Reconcile that returns the error of ensureContextInjected
InjectOrFail(w) ==
  /\ At(w, "setup", "inject")
  /\ \E ok \in BOOLEAN :
       IF InjectNeeded(Path(w), docs) /\ ok /\ Exists(Path(w))
         THEN /\ docs' = docs \cup {Path(w)}
              /\ workers' = [workers EXCEPT ![w].pc = "cacheLoad",
                                            ![w].wroteDoc = TRUE,
                                            ![w].touched = TRUE]
         ELSE /\ UNCHANGED docs
              /\ workers' = [workers EXCEPT ![w] =
                   IF InjectNeeded(Path(w), docs)
                     THEN Returned([@ EXCEPT !.logged = @ \cup {"inject"}], "retriable")
                     ELSE [@ EXCEPT !.pc = "cacheLoad"]]
  /\ UNCHANGED <<loopVars, queueVars, prData, worktrees, prCache, gitMu, sent>>

\* ensureContextInjected; its error is logged and dropped.  The write needs
\* the worktree directory.
Inject(w) ==
  /\ At(w, "setup", "inject")
  /\ \E ok \in BOOLEAN :
       IF InjectNeeded(Path(w), docs) /\ ok /\ Exists(Path(w))
         THEN /\ docs' = docs \cup {Path(w)}
              /\ workers' = [workers EXCEPT ![w].pc = "cacheLoad",
                                            ![w].wroteDoc = TRUE,
                                            ![w].touched = TRUE]
         ELSE /\ UNCHANGED docs
              /\ workers' = [workers EXCEPT
                   ![w].pc = "cacheLoad",
                   ![w].logged = IF InjectNeeded(Path(w), docs)
                                   THEN @ \cup {"inject"} ELSE @]
  /\ UNCHANGED <<loopVars, queueVars, prData, worktrees, prCache, gitMu, sent>>

\* a pr_cache.json that json.Unmarshal rejects holds this key
GarbageKey == <<"?">>

Garbled(file) == GarbageKey \in DOMAIN file

\* prcache.Load: an empty map for a file that cannot be read or parsed
PrcacheLoad(file) == IF Garbled(file) THEN EmptyMap ELSE file

\* prcache.Set: cache := Load()
CacheLoad(w) ==
  /\ At(w, "setup", "cacheLoad")
  /\ workers' = [workers EXCEPT ![w].pc = "cacheSave", ![w].loaded = PrcacheLoad(prCache)]
  /\ UNCHANGED <<loopVars, queueVars, prData, worktrees, docs, prCache, gitMu, sent>>

MapSet(m, k, v) == [x \in DOMAIN m \cup {k} |-> IF x = k THEN v ELSE m[x]]

\* prcache.Set: cache[key] = PRMeta{...}; Save(cache), which gives up
\* silently when the file cannot be written
CacheSave(w) ==
  /\ At(w, "setup", "cacheSave")
  /\ \E ok \in BOOLEAN :
       IF ok
         THEN /\ prCache' = MapSet(workers[w].loaded,
                                   CacheKey(workers[w].repo, workers[w].number),
                                   [Title |-> workers[w].title,
                                    Author |-> workers[w].author])
              /\ workers' = [workers EXCEPT ![w].pc = "notify", ![w].touched = TRUE]
         ELSE /\ UNCHANGED prCache
              /\ workers' = [workers EXCEPT ![w].pc = "notify",
                                            ![w].logged = @ \cup {"cache"}]
  /\ UNCHANGED <<loopVars, queueVars, prData, worktrees, docs, gitMu, sent>>

\* notify.WorktreeReady: the notification is handed to osascript, whose
\* error is logged; return nil
NotifyReady(w) ==
  /\ At(w, "setup", "notify")
  /\ sent' = Send(sent, <<"ready", workers[w].number>>)
  /\ \E ok \in BOOLEAN :
       workers' = [workers EXCEPT ![w] =
         Returned([@ EXCEPT !.touched = TRUE,
                            !.logged = IF ok THEN @ ELSE @ \cup {"notify"}],
                  "success")]
  /\ UNCHANGED <<loopVars, queueVars, prData, worktrees, docs, prCache, gitMu>>

\* ------------------------------------------------------------------------
\* internal/reconciler/cleanup.go
\* ------------------------------------------------------------------------
\* Reconcile up to the call of removeWorktree: the two terminal errors
CleanupResolved(c, self) ==
  LET p == ParsePRKey(self.key)
  IN IF p.err THEN Returned(self, "terminal")
     ELSE IF RepoBasePath(c, p.repo) = "" THEN Returned(self, "terminal")
     ELSE [self EXCEPT !.pc = "cstat", !.repo = p.repo, !.number = p.number,
                       !.base = RepoBasePath(c, p.repo)]

CleanupStart(w) ==
  /\ At(w, "cleanup", "start")
  /\ workers' = [workers EXCEPT ![w] = CleanupResolved(cfg, workers[w])]
  /\ UNCHANGED <<loopVars, queueVars, prData, worktrees, docs, prCache, gitMu, sent>>

\* a removeWorktree without the os.Stat of the path
NeverStat(path, dirs) == FALSE

\* removeWorktree: os.IsNotExist(err) of os.Stat(worktreePath)
AlreadyRemoved(path, dirs) == ~\E d \in dirs : d.path = path

\* removeWorktree: git worktree remove starts unless the path is missing
CleanupStat(w) ==
  /\ At(w, "cleanup", "cstat")
  /\ workers' = [workers EXCEPT ![w] =
                   IF AlreadyRemoved(Path(w), worktrees) THEN Returned(@, "success")
                   ELSE [@ EXCEPT !.pc = "remove", !.ranGit = TRUE]]
  /\ UNCHANGED <<loopVars, queueVars, prData, worktrees, docs, prCache, gitMu, sent>>

\* git worktree remove <path> --force exits
WorktreeRemove(w) ==
  /\ At(w, "cleanup", "remove")
  /\ \E ok \in BOOLEAN :
       IF ok THEN /\ worktrees' = {d \in worktrees : d.path # Path(w)}
                  /\ docs' = docs \ {Path(w)}
                  /\ workers' = [workers EXCEPT ![w] =
                                   Returned([@ EXCEPT !.touched = TRUE], "success")]
             ELSE /\ workers' = [workers EXCEPT ![w] = Returned(@, "retriable")]
                  /\ UNCHANGED <<worktrees, docs>>
  /\ UNCHANGED <<loopVars, queueVars, prData, prCache, gitMu, sent>>

\* one step of a reconciliation in flight
Step(w) ==
  \/ SetupStart(w) \/ Stat1(w) \/ GitMuLock(w) \/ Stat2(w) \/ Fetch(w)
  \/ WorktreeAdd(w) \/ RmLock(w) \/ Inject(w) \/ CacheLoad(w) \/ CacheSave(w)
  \/ NotifyReady(w)
  \/ CleanupStart(w) \/ CleanupStat(w) \/ WorktreeRemove(w)

\* ------------------------------------------------------------------------
\* cmd/watch: pollOnce, saveState
\* ------------------------------------------------------------------------
Injective(s) ==
  \A i, j \in 1..Len(s) : s[i] = s[j] => i = j

\* the answers of GetReviewRequests: de-duplicated by PR number
ReviewLists(open) ==
  {s \in UNION {[1..n -> open] : n \in 0..Cardinality(open)} : Injective(s)}

\* fmt.Sprintf("%d", pr.Number), the element of the seen set
SeenKey(pr) == Itoa(pr.Number)

\* the key pollOnce enqueues
PollKey(pr) == MakePRKey(pr.RepoName, pr.Number)

PollPriority == 1

\* a loop that takes every pull request of the response for a new one
PollOneAgain(st, pr, c) ==
  LET noted == [st EXCEPT !.sent = Send(@, <<"review", pr.Number>>)]
      key == PollKey(pr)
      res == QEnqueue(st.queue, key, PollPriority)
      queued == [noted EXCEPT !.data = MapSet(@, key, pr), !.queue = res.q]
  IN [(IF IsAuthor(c, pr.Author) THEN queued ELSE noted)
        EXCEPT !.seen = @ \cup {SeenKey(pr)}]

\* a loop that enqueues the key without handing over the payload
PollOneNoPayload(st, pr, c) ==
  IF SeenKey(pr) \in st.seen THEN st
  ELSE LET noted == [st EXCEPT !.sent = Send(@, <<"review", pr.Number>>)]
           key == PollKey(pr)
           res == QEnqueue(st.queue, key, PollPriority)
           queued == [noted EXCEPT !.queue = res.q]
       IN [(IF IsAuthor(c, pr.Author) THEN queued ELSE noted)
             EXCEPT !.seen = @ \cup {SeenKey(pr)}]

\* a loop that leaves a pull request unseen when its Enqueue is refused
PollOneSeenIfQueued(st, pr, c) ==
  IF SeenKey(pr) \in st.seen THEN st
  ELSE LET noted == [st EXCEPT !.sent = Send(@, <<"review", pr.Number>>)]
           key == PollKey(pr)
           res == QEnqueue(st.queue, key, PollPriority)
           queued == [noted EXCEPT !.data = MapSet(@, key, pr), !.queue = res.q]
       IN IF IsAuthor(c, pr.Author)
            THEN [queued EXCEPT !.seen = IF res.err THEN @ ELSE @ \cup {SeenKey(pr)}]
            ELSE [noted EXCEPT !.seen = @ \cup {SeenKey(pr)}]

\* one iteration of the loop of pollOnce over st = the daemon's state
PollOne(st, pr, c) ==
  IF SeenKey(pr) \in st.seen THEN st
  ELSE LET noted == [st EXCEPT !.sent = Send(@, <<"review", pr.Number>>)]
           key == PollKey(pr)
           res == QEnqueue(st.queue, key, PollPriority)
           queued == [noted EXCEPT !.data = MapSet(@, key, pr), !.queue = res.q]
       IN [(IF IsAuthor(c, pr.Author) THEN queued ELSE noted)
             EXCEPT !.seen = @ \cup {SeenKey(pr)}]

RECURSIVE PollLoop(_, _, _)
PollLoop(st, reviews, c) ==
  IF reviews = <<>> THEN st
  ELSE PollLoop(PollOne(st, Head(reviews), c), Tail(reviews), c)

\* saveState(seenPRs, len(reviews)); the timestamp is not modelled
SavedState(seen, count) == [PRCount |-> count, SeenPRs |-> seen]

\* pollOnce with the configuration c in force
PollWith(c) ==
  /\ mainpc = "idle"
  /\ \/ \* GetReviewRequests fails: logged, nothing else
        UNCHANGED <<seenPRs, prData, setupQueue, sent, lastCheck>>
     \/ \E reviews \in ReviewLists(remote) :
          LET st == PollLoop([seen |-> seenPRs, data |-> prData, queue |-> setupQueue,
                              sent |-> sent], reviews, c)
          IN /\ seenPRs' = st.seen
             /\ prData' = st.data
             /\ setupQueue' = st.queue
             /\ sent' = st.sent
             /\ lastCheck' = SavedState(st.seen, Len(reviews))
  /\ UNCHANGED <<pidFile, procs, starts, configFile, remote, concurrency, maxRetries, mainpc, cleanupQueue,
                 worktrees, docs, prCache, gitMu, workers>>

\* a poll while the configuration file is as it was at the start
PollOnce == PollWith(cfg) /\ UNCHANGED <<cfg, recCfg, tickers>>

\* ------------------------------------------------------------------------
\* internal/worktree: Classify, ListForRepo, ListAll
\* ------------------------------------------------------------------------
\* the length of the longest run of digits that ends the name
RECURSIVE DigitSuffixLen(_)
DigitSuffixLen(name) ==
  IF name # <<>> /\ IsDigit(name[Len(name)])
    THEN 1 + DigitSuffixLen(SubSeq(name, 1, Len(name) - 1))
    ELSE 0

\* a pattern that asks for a repository name before -pr-
ClassifyNamed(name) ==
  LET k == DigitSuffixLen(name)
      n == Len(name)
  IN IF k > 0 /\ n - k >= 5 /\ SubSeq(name, n - k - 3, n - k) = PrInfix
       THEN [Type |-> "pr-review", PRNumber |-> DigitsVal(SubSeq(name, n - k + 1, n))]
       ELSE [Type |-> "feature", PRNumber |-> 0]

\* prPattern = `-pr-(\d+)$`
Classify(name) ==
  LET k == DigitSuffixLen(name)
      n == Len(name)
  IN IF k > 0 /\ n - k >= 4 /\ SubSeq(name, n - k - 3, n - k) = PrInfix
       THEN [Type |-> "pr-review", PRNumber |-> DigitsVal(SubSeq(name, n - k + 1, n))]
       ELSE [Type |-> "feature", PRNumber |-> 0]

\* git worktree list in the clone of repo, the clone itself skipped
ListForRepo(c, dirs, repo) ==
  IF RepoBasePath(c, repo) = "" THEN {}
  ELSE {[Path |-> d.path, Name |-> d.path[2], Type |-> Classify(d.path[2]).Type,
         PRNumber |-> Classify(d.path[2]).PRNumber, Repo |-> repo] :
          d \in {x \in dirs : x.origin = <<RepoBasePath(c, repo), repo>>}}

ListAll(c, dirs) == UNION {ListForRepo(c, dirs, repo) : repo \in RepoNames(c)}

\* ------------------------------------------------------------------------
\* internal/reconciler/cleanup.go: ScanMergedPRs
\* ------------------------------------------------------------------------
DefaultCleanupAfterDays == 5

GetCleanupAfterDays(w) ==
  IF w.CleanupAfterDays > 0 THEN w.CleanupAfterDays ELSE DefaultCleanupAfterDays

PRStates == {"ERROR", "OPEN", "CLOSED", "MERGED"}

\* AgeDays: an error, -1 for a worktree without a dated commit, or the days
AgeUndatable == -2
AgeResults == {AgeUndatable, DefaultCleanupAfterDays - 1, DefaultCleanupAfterDays}

\* a loop that waits for the age to exceed the configured days
ScanSelectsOlder(w, state, age, days) ==
  /\ w.Type = "pr-review" /\ w.PRNumber # 0
  /\ state = "MERGED"
  /\ age # AgeUndatable /\ age > days

\* whether the loop of ScanMergedPRs enqueues worktree w
ScanSelects(w, state, age, days) ==
  /\ w.Type = "pr-review" /\ w.PRNumber # 0
  /\ state = "MERGED"
  /\ age # AgeUndatable /\ age >= days

ScanPriority == 0

\* the queue.Queue calls of the loop, a full queue being logged
RECURSIVE ScanLoop(_, _)
ScanLoop(q, wts) ==
  IF wts = <<>> THEN q
  ELSE ScanLoop(QEnqueue(q, MakePRKey(Head(wts).Repo, Head(wts).PRNumber),
                         ScanPriority).q,
                Tail(wts))

\* the orders in which a set can be listed
Orders(S) == {s \in [1..Cardinality(S) -> S] : Injective(s)}

ScanMergedPRs ==
  /\ mainpc = "idle"
  /\ LET wts == ListAll(cfg, worktrees)
     IN \E state \in [wts -> PRStates], age \in [wts -> AgeResults] :
          \E order \in Orders({w \in wts :
                  ScanSelects(w, state[w], age[w], GetCleanupAfterDays(cfg.Watch))}) :
            cleanupQueue' = ScanLoop(cleanupQueue, order)
  /\ UNCHANGED <<loopVars, setupQueue, prData, worktrees, docs, prCache, gitMu,
                 workers, sent>>

\* ------------------------------------------------------------------------
\* cmd/watch: the dispatch tick of watchDaemon, and the dispatcher (spec 4.2)
\* ------------------------------------------------------------------------
CleanupParallelism == 1
CleanupMaxRetries == 3

\* the worker slots of a dispatcher
Slots(kind) == IF kind = "setup" THEN 1..concurrency ELSE {0}

Parallelism(kind) == IF kind = "setup" THEN concurrency ELSE CleanupParallelism

MaxAttempts(kind) == IF kind = "setup" THEN maxRetries ELSE CleanupMaxRetries

QueueOf(kind) == IF kind = "setup" THEN setupQueue ELSE cleanupQueue

InFlight(kind) == {w \in WorkerIds : workers[w].kind = kind}

\* a dispatch tick that starts the dispatch and drops its future
FutureDropped(inflight) == TRUE

\* dispatcher.HandleAsync(...)() of the dispatch tick: the future of a
\* dispatch is awaited at once, so that the loop goes on when the workers
\* the dispatch started have finished
FutureAwaited(inflight) == inflight = {}

\* case <-dispatchTicker.C
DispatchTick ==
  /\ mainpc = "idle"
  /\ mainpc' = "setup"
  /\ UNCHANGED <<hostVars, remote, cfg, concurrency, maxRetries, seenPRs, lastCheck, queueVars,
                 prData, worktrees, docs, prCache, gitMu, workers, sent>>

\* the dispatcher leases the next eligible item and starts a worker on it
Lease(kind) ==
  /\ mainpc = kind
  /\ Cardinality(InFlight(kind)) < Parallelism(kind)
  /\ QEligible(QueueOf(kind)) # {}
  /\ LET it == QNext(QueueOf(kind))
         w == CHOOSE x \in Slots(kind) :
                /\ workers[x] = Idle
                /\ \A y \in Slots(kind) : workers[y] = Idle => x <= y
     IN /\ workers' = [workers EXCEPT ![w] = Call("start", kind, it.key, NoPre)]
        /\ IF kind = "setup"
             THEN /\ setupQueue' = QLease(setupQueue, it.key)
                  /\ UNCHANGED cleanupQueue
             ELSE /\ cleanupQueue' = QLease(cleanupQueue, it.key)
                  /\ UNCHANGED setupQueue
  /\ UNCHANGED <<loopVars, prData, worktrees, docs, prCache, gitMu, sent>>

\* the worker reports the outcome of Reconcile to the queue
Complete(w) ==
  /\ workers[w].pc = "ret"
  /\ LET kind == workers[w].kind
         key == workers[w].key
         it == QItem(QueueOf(kind), key)
         max == MaxAttempts(kind)
     IN \E delay \in JitterWindow(it.attempts + 1) :
          LET q == QComplete(QueueOf(kind), key, workers[w].result, max, delay)
          IN IF kind = "setup"
               THEN setupQueue' = q /\ UNCHANGED cleanupQueue
               ELSE cleanupQueue' = q /\ UNCHANGED setupQueue
  /\ workers' = [workers EXCEPT ![w] = Idle]
  /\ UNCHANGED <<loopVars, prData, worktrees, docs, prCache, gitMu, sent>>

\* a dispatch returns when nothing is eligible and its future is done
DispatchDone(kind) ==
  /\ mainpc = kind
  /\ FutureAwaited(InFlight(kind))
  /\ QEligible(QueueOf(kind)) = {}

SetupDispatchReturn ==
  /\ DispatchDone("setup")
  /\ mainpc' = "cleanup"
  /\ UNCHANGED <<hostVars, remote, cfg, concurrency, maxRetries, seenPRs, lastCheck, queueVars,
                 prData, worktrees, docs, prCache, gitMu, workers, sent>>

CleanupDispatchReturn ==
  /\ DispatchDone("cleanup")
  /\ mainpc' = "idle"
  /\ UNCHANGED <<hostVars, remote, cfg, concurrency, maxRetries, seenPRs, lastCheck, queueVars,
                 prData, worktrees, docs, prCache, gitMu, workers, sent>>

\* one unit of time passes while some item is backing off
Tick ==
  /\ \E it \in setupQueue \cup cleanupQueue : it.notBefore > 0
  /\ setupQueue' = QTick(setupQueue)
  /\ cleanupQueue' = QTick(cleanupQueue)
  /\ UNCHANGED <<loopVars, prData, worktrees, docs, prCache, gitMu, workers, sent>>

\* ------------------------------------------------------------------------
\* The daemon
\* ------------------------------------------------------------------------
\* what can be on disk when the daemon starts: worktrees of earlier runs
DirA1 == [path |-> WorktreePath(BaseB, RepoA, 1), origin |-> <<BaseB, RepoA>>]

\* the daemon starts: watchDaemon up to its main loop, without the initial
\* poll, which PollOnce models
Booted(open, configs) ==
  /\ remote = open
  /\ cfg \in configs
  /\ concurrency = GetConcurrency(cfg.Watch)
  /\ maxRetries = GetMaxRetries(cfg.Watch)
  /\ mainpc = "idle"
  /\ setupQueue = {}
  /\ cleanupQueue = {}
  /\ prData = EmptyMap
  /\ seenPRs = {}
  /\ lastCheck = NoCheck
  /\ worktrees \in SUBSET {DirA1}
  /\ docs = {}
  /\ prCache = EmptyMap
  /\ gitMu = FALSE
  /\ workers = [w \in WorkerIds |-> Idle]
  /\ sent = {}

\* the loop alone, its host left aside
Started(open, configs) == Booted(open, configs) /\ HostOff

Next ==
  \/ PollOnce
  \/ ScanMergedPRs
  \/ DispatchTick
  \/ \E kind \in {"setup", "cleanup"} : Lease(kind)
  \/ \E w \in WorkerIds : Step(w)
  \/ \E w \in WorkerIds : Complete(w)
  \/ SetupDispatchReturn
  \/ CleanupDispatchReturn
  \/ Tick

\* two pull requests of a configured repository, two setup workers
Init == Started({ReviewA1, ReviewA2}, {Config(Watch(0, 2, 0))})

Spec == Init /\ [][Next]_vars

\* one pull request of a configured repository and one of a repository the
\* configuration knows under another name, one setup worker
InitRetry == Started({ReviewA1, ReviewX3}, {Config(Watch(1, 0, 0)), Config(Watch(1, 2, 4))})

SpecRetry == InitRetry /\ [][Next]_vars

\* ------------------------------------------------------------------------
\* The reconcilers called directly, one call at a time, as the tests of
\* internal/reconciler call them
\* ------------------------------------------------------------------------
RepoE == <<"e">>

\* a configuration with a repository entry that has no base_path
ConfigRec ==
  [Config(Watch(0, 0, 0)) EXCEPT
     !.Repos = ReposCfg @@ (RepoE :> [FullName |-> "o/e", BasePath |-> ""])]

\* the keys the reconcilers are called with
RecKeys ==
  {MakePRKey(RepoA, 1), MakePRKey(RepoX, 3), MakePRKey(RepoE, 1),
   <<"b", "a", "d">>, <<"a", ":">>, <<"a", ":", "1", "x">>,
   <<"a", ":", "+", "1">>, <<"a", ":", "1", ":", "2">>}

\* the keys a payload is stored under
StoreKeys ==
  {MakePRKey(RepoA, 1), MakePRKey(RepoX, 3), MakePRKey(RepoE, 1), <<"b", "a", "d">>}

\* what a call of Reconcile(key) finds in place for its key
Found(key) ==
  LET p == ParsePRKey(key)
      path == WorktreePath(RepoBasePath(cfg, p.repo), p.repo, p.number)
      ck == CacheKey(p.repo, p.number)
  IN [wt |-> Exists(path), doc |-> path \in docs,
      meta |-> IF ck \in DOMAIN prCache THEN prCache[ck].Title ELSE "unset"]

\* SetupReconciler.StorePRData
StorePRData(key, pr) ==
  /\ workers[1] = Idle
  /\ prData' = MapSet(prData, key, pr)
  /\ UNCHANGED <<loopVars, queueVars, worktrees, docs, prCache, gitMu, workers, sent>>

CallReconcile(kind, key) ==
  /\ workers[1] = Idle
  /\ workers' = [workers EXCEPT ![1] = Call("start", kind, key, Found(key))]
  /\ UNCHANGED <<loopVars, queueVars, prData, worktrees, docs, prCache, gitMu, sent>>

\* Reconcile has returned to its caller
Return(w) ==
  /\ workers[w].pc = "ret"
  /\ workers' = [workers EXCEPT ![w] = Idle]
  /\ UNCHANGED <<loopVars, queueVars, prData, worktrees, docs, prCache, gitMu, sent>>

\* the process is killed in the middle of a call and started again: the
\* memory of the process is lost, the disk stays
Crash ==
  /\ workers[1].pc \notin {"idle", "ret"}
  /\ workers' = [workers EXCEPT ![1] = Idle]
  /\ gitMu' = FALSE
  /\ prData' = EmptyMap
  /\ UNCHANGED <<loopVars, queueVars, worktrees, docs, prCache, sent>>

StaleCache == (CacheKey(RepoA, 1) :> [Title |-> "t0", Author |-> "alice"])

InitRec ==
  /\ remote = {}
  /\ HostOff
  /\ cfg = ConfigRec
  /\ concurrency = GetConcurrency(cfg.Watch)
  /\ maxRetries = GetMaxRetries(cfg.Watch)
  /\ mainpc = "idle"
  /\ setupQueue = {}
  /\ cleanupQueue = {}
  /\ prData = EmptyMap
  /\ seenPRs = {}
  /\ lastCheck = NoCheck
  /\ worktrees \in SUBSET {DirA1}
  /\ docs = {}
  /\ prCache \in {EmptyMap, StaleCache}
  /\ gitMu = FALSE
  /\ workers = [w \in WorkerIds |-> Idle]
  /\ sent = {}

NextRec ==
  \/ \E key \in StoreKeys : StorePRData(key, ReviewA1)
  \/ \E kind \in {"setup", "cleanup"}, key \in RecKeys : CallReconcile(kind, key)
  \/ Step(1)
  \/ Return(1)
  \/ Crash

SpecRec == InitRec /\ [][NextRec]_vars

\* ------------------------------------------------------------------------
\* Properties of the daemon (Spec)
\* ------------------------------------------------------------------------
\* the reconciliations in flight on a key, of either dispatcher
InFlightOn(key) == {w \in WorkerIds : workers[w].pc # "idle" /\ workers[w].key = key}

AllKeys ==
  {workers[w].key : w \in WorkerIds} \cup QKeys(setupQueue) \cup QKeys(cleanupQueue)

\* a queue holds one item per key, and an item is leased exactly while a
\* worker of the queue's dispatcher reconciles its key
OneItemPerKey(kind) ==
  /\ \A i, j \in QueueOf(kind) : i.key = j.key => i = j
  /\ \A it \in QueueOf(kind) :
       it.leased <=> \E w \in InFlight(kind) : workers[w].key = it.key
  /\ \A w \in InFlight(kind) : workers[w].key \in QKeys(QueueOf(kind))

\* C1: for every key at most one reconciliation is in flight, the setup and
\* the cleanup dispatcher counted together, and a key enqueued again while
\* it is in the queue stays one item with at most one lease
C1_OneReconciliationPerKey ==
  /\ \A key \in AllKeys : Cardinality(InFlightOn(key)) <= 1
  /\ OneItemPerKey("setup")
  /\ OneItemPerKey("cleanup")

\* a setup reconciliation of a key is in flight while the cleanup queue
\* holds an item of the same key
C1_Witness ==
  \E w \in InFlight("setup") :
    /\ workers[w].pc \notin {"idle", "ret"}
    /\ workers[w].key \in QKeys(cleanupQueue)
    /\ QItem(setupQueue, workers[w].key).leased

\* a version-control subprocess of a reconciler is running
RunsGit(w) ==
  \/ workers[w].kind = "setup" /\ workers[w].pc \in {"fetch", "add"}
  \/ workers[w].kind = "cleanup" /\ workers[w].pc = "remove"

\* the part of ensureWorktree between wt.GitMu.Lock() and the unlock
InCritical(w) ==
  workers[w].kind = "setup" /\ workers[w].pc \in {"stat2", "fetch", "add", "rmlock"}

\* C2: a reconciler holds the Version-Control Mutex whenever it runs git
\* fetch, git worktree add or git worktree remove --force
C2_GitUnderMutex ==
  \A w \in WorkerIds : RunsGit(w) => gitMu /\ InCritical(w)

\* C3: at most one reconciliation holds GitMu; a setup reconciliation that
\* creates its worktree holds it from before the fetch until after the
\* worktree add and the lock removal, and no longer, whichever way
\* ensureWorktree returns
C3_MutexHeldByOne ==
  /\ Cardinality({w \in WorkerIds : InCritical(w)}) <= 1
  /\ gitMu <=> \E w \in WorkerIds : InCritical(w)
  /\ \A w \in WorkerIds :
       workers[w].kind = "setup" /\ workers[w].pc \in {"fetch", "add", "rmlock"}
         => gitMu

\* one setup reconciliation has returned the error of its subprocess, a
\* second one runs its subprocess under the mutex and a third party waits:
\* here, the first has released the mutex on its error return
C3_Witness ==
  \E w1, w2 \in InFlight("setup") :
    /\ workers[w1].pc = "ret" /\ workers[w1].result = "retriable" /\ workers[w1].ranGit
    /\ workers[w2].pc \in {"fetch", "add"}
    /\ gitMu

\* ------------------------------------------------------------------------
\* Properties of the reconcilers (SpecRec)
\* ------------------------------------------------------------------------
\* the key parses and its repo has a base path in the configuration
Configured(key) ==
  /\ ~ParsePRKey(key).err
  /\ RepoBasePath(cfg, ParsePRKey(key).repo) # ""

PathOf(key) ==
  LET p == ParsePRKey(key)
  IN WorktreePath(RepoBasePath(cfg, p.repo), p.repo, p.number)

\* the title pr_cache.json holds for the key
CachedTitle(key) == Found(key).meta

\* worktree, CLAUDE.local.md and the cache entry of the payload were in
\* place when Reconcile(key) was called
AllInPlace(self) ==
  /\ self.pre.wt
  /\ self.pre.doc
  /\ self.pre.meta = prData[self.key].Title

\* C4: SetupReconciler.Reconcile(K), K of a configured repo and with a
\* buffered payload, called in whatever state an earlier call, a failure or
\* a crash has left: when worktree, CLAUDE.local.md and cache entry are in
\* place it runs no git subprocess and leaves all three as they were; a
\* step found done is not done again; and when it returns success the
\* worktree is there, and CLAUDE.local.md and the cache entry are there
\* unless their write failed and was logged
C4_SetupIdempotent ==
  \A w \in WorkerIds :
    LET self == workers[w] IN
    (At(w, "setup", "ret") /\ Configured(self.key) /\ self.key \in DOMAIN prData) =>
      /\ AllInPlace(self) =>
           /\ self.result = "success"
           /\ ~self.ranGit /\ ~self.wroteDoc
           /\ Exists(PathOf(self.key))
           /\ PathOf(self.key) \in docs
           /\ CachedTitle(self.key) = self.pre.meta
      /\ self.pre.wt => ~self.ranGit /\ Exists(PathOf(self.key))
      /\ self.pre.doc => ~self.wroteDoc /\ PathOf(self.key) \in docs
      /\ ~self.pre.wt => self.ranGit
      /\ self.result = "success" =>
           /\ Exists(PathOf(self.key))
           /\ PathOf(self.key) \in docs \/ "inject" \in self.logged
           /\ CachedTitle(self.key) = prData[self.key].Title \/ "cache" \in self.logged
           /\ (~self.pre.doc /\ "inject" \notin self.logged) => self.wroteDoc
      /\ self.result # "success" => ~self.pre.wt /\ ~Exists(PathOf(self.key))

\* a call that found everything in place has returned
C4_Witness ==
  /\ At(1, "setup", "ret")
  /\ workers[1].key \in DOMAIN prData
  /\ AllInPlace(workers[1])
  /\ workers[1].result = "success"

\* C5: CleanupReconciler.Reconcile(K), K of a configured repo, that finds no
\* worktree path returns success, runs no subprocess and changes nothing;
\* such is every cleanup that follows a successful one
C5_CleanupOfMissing ==
  \A w \in WorkerIds :
    LET self == workers[w] IN
    (At(w, "cleanup", "ret") /\ Configured(self.key)) =>
      /\ ~self.pre.wt => self.result = "success" /\ ~self.ranGit /\ ~self.touched
      /\ self.result = "success" => ~Exists(PathOf(self.key))

C5_Witness ==
  /\ At(1, "cleanup", "ret")
  /\ Configured(workers[1].key)
  /\ ~workers[1].pre.wt
  /\ workers[1].result = "success"
  /\ ~workers[1].ranGit

\* the cases of a terminal error: the key does not parse, the configuration
\* has no entry or no base path for the repo, setup has no payload
TerminalCase(kind, key) ==
  \/ ParsePRKey(key).err
  \/ ParsePRKey(key).repo \notin DOMAIN cfg.Repos
  \/ cfg.Repos[ParsePRKey(key).repo].BasePath = ""
  \/ kind = "setup" /\ key \notin DOMAIN prData

\* C6: Reconcile returns a terminal error exactly for a malformed key, a
\* repo that is not configured and, in setup, a key without payload; it has
\* then touched neither disk, cache nor notifications; every other failure
\* is a retriable error
C6_TerminalErrors ==
  \A w \in WorkerIds :
    LET self == workers[w] IN
    self.pc = "ret" =>
      /\ self.result \in {"success", "retriable", "terminal"}
      /\ self.result = "terminal" <=> TerminalCase(self.kind, self.key)
      /\ self.result = "terminal" =>
           ~self.touched /\ ~self.ranGit /\ ~self.wroteDoc /\ self.logged = {}

\* setup has returned a terminal error for a well-formed key with a payload
\* whose repo the configuration does not know
C6_Witness ==
  /\ At(1, "setup", "ret")
  /\ workers[1].result = "terminal"
  /\ ~ParsePRKey(workers[1].key).err
  /\ ParsePRKey(workers[1].key).repo \notin RepoNames(cfg)
  /\ workers[1].key \in DOMAIN prData
  /\ ~workers[1].touched

\* ------------------------------------------------------------------------
\* Properties of retry and backoff (SpecRetry)
\* ------------------------------------------------------------------------
Kinds == {"setup", "cleanup"}

\* worker w hands the outcome of its reconciliation to the queue
Completes(w) == workers[w].pc = "ret" /\ workers'[w].pc = "idle"

\* the queues after the step
QueueOfNext(kind) == IF kind = "setup" THEN setupQueue' ELSE cleanupQueue'

\* a reconciliation that returned a terminal error takes its item out of
\* the queue, whatever the attempt
TerminalDropped ==
  \A w \in WorkerIds :
    LET kind == workers[w].kind
        it == QItem(QueueOf(kind), workers[w].key)
    IN (Completes(w) /\ workers[w].result = "terminal" /\ ~it.again)
         => workers[w].key \notin QKeys(QueueOfNext(kind))

\* C7: an item whose reconciliation returns a terminal error leaves the
\* queue at the end of that attempt: nothing is left to lease or to
\* re-schedule until the key is enqueued anew
C7_TerminalNotRetried == [][TerminalDropped]_vars

\* a reconciliation has returned a terminal error on the first attempt of
\* its item, which is still in the queue, leased
C7_Witness ==
  \E w \in InFlight("setup") :
    /\ workers[w].pc = "ret" /\ workers[w].result = "terminal"
    /\ workers[w].key \in QKeys(setupQueue)
    /\ QItem(setupQueue, workers[w].key).runs = 1
    /\ QItem(setupQueue, workers[w].key).leased

\* the attempts the daemon allows: watch.max_retries or 5 for setup, 3 for
\* cleanup
AttemptCap(kind) ==
  IF kind = "cleanup" THEN 3
  ELSE IF cfg.Watch.MaxRetries > 0 THEN cfg.Watch.MaxRetries ELSE 5

\* no item has been reconciled more often than the cap allows, and an item
\* that has had its last attempt is under lease
AttemptsCapped ==
  \A kind \in Kinds : \A it \in QueueOf(kind) :
    /\ it.runs <= AttemptCap(kind)
    /\ it.attempts < AttemptCap(kind)
    /\ it.runs = AttemptCap(kind) => it.leased

\* the end of the last attempt allowed takes the item out of the queue
LastAttemptDrops ==
  \A w \in WorkerIds :
    LET kind == workers[w].kind
        it == QItem(QueueOf(kind), workers[w].key)
    IN (Completes(w) /\ it.runs = AttemptCap(kind) /\ ~it.again)
         => workers[w].key \notin QKeys(QueueOfNext(kind))

\* C8: a key whose reconciliation fails with a retriable error every time
\* is reconciled at most max-attempts times (setup: watch.max_retries, 5 by
\* default; cleanup: 3), and its item leaves the queue at the end of the
\* last attempt allowed
C8_AttemptsCapped == [](AttemptsCapped) /\ [][LastAttemptDrops]_vars

\* a setup item is in its fifth attempt under the default cap, and that
\* attempt has failed with a retriable error
C8_Witness ==
  \E w \in InFlight("setup") :
    /\ cfg.Watch.MaxRetries = 0
    /\ workers[w].pc = "ret" /\ workers[w].result = "retriable"
    /\ QItem(setupQueue, workers[w].key).runs = 5

\* the delay d, in clock units, is within 20 % of min(30 s * 2^(a-1), 600 s)
WithinBackoff(d, a) ==
  LET nominal == IF 30 * (2 ^ (a - 1)) < 600 THEN 30 * (2 ^ (a - 1)) ELSE 600
  IN /\ 4 * nominal <= 5 * d * TimeUnitSeconds
     /\ 5 * d * TimeUnitSeconds <= 6 * nominal

\* the counts of an item follow its failures; an item that waits for a
\* retry has its earliest-eligible time backoff(attempt) after its failure
RetryState ==
  \A kind \in Kinds : \A it \in QueueOf(kind) :
    /\ it.attempts = IF it.leased THEN it.runs - 1 ELSE it.runs
    /\ (~it.leased /\ it.attempts > 0) =>
         WithinBackoff(it.notBefore + it.waited, it.attempts)

\* a failed step 1 of setup is a retriable failure; the success that
\* follows one failure leaves the worktree, two attempts made
RetryOfSetup ==
  \A w \in InFlight("setup") :
    LET self == workers[w]
        it == QItem(setupQueue, self.key)
    IN self.pc = "ret" =>
         /\ (self.ranGit /\ self.result # "success") => self.result = "retriable"
         /\ (self.result = "success" /\ it.attempts = 1) =>
              Exists(Path(w)) /\ it.runs = 2

\* the end of an attempt that failed with a retriable error below the cap
\* leaves the item in the queue, not leased, its attempt count one higher
\* and its earliest-eligible time backoff(attempt) ahead
Rescheduled ==
  \A w \in WorkerIds :
    LET kind == workers[w].kind
        it == QItem(QueueOf(kind), workers[w].key)
    IN (/\ Completes(w)
        /\ workers[w].result = "retriable"
        /\ it.attempts + 1 < AttemptCap(kind)
        /\ ~it.again)
         => /\ workers[w].key \in QKeys(QueueOfNext(kind))
            /\ LET after == QItem(QueueOfNext(kind), workers[w].key)
               IN /\ after.attempts = it.attempts + 1
                  /\ ~after.leased
                  /\ WithinBackoff(after.notBefore, after.attempts)
                  /\ it.attempts = 0 => after.attempts = 1

\* C9: an item that completes with a retriable error below the cap stays in
\* the queue with its attempt count incremented by one and its
\* earliest-eligible time set to now + backoff(attempt); the first failure
\* of a setup item makes the count 1, and a later success leaves the
\* worktree present, two attempts made in total
C9_RetriableRescheduled ==
  [](RetryState /\ RetryOfSetup) /\ [][Rescheduled]_vars

\* the second attempt of a setup item has succeeded after a first that
\* failed
C9_Witness ==
  \E w \in InFlight("setup") :
    /\ workers[w].pc = "ret" /\ workers[w].result = "success"
    /\ QItem(setupQueue, workers[w].key).attempts = 1
    /\ QItem(setupQueue, workers[w].key).waited = 1
    /\ workers[w].ranGit

\* C10: an item under lease has no earliest-eligible time ahead of the
\* clock: a retried item has waited out its backoff delay before the lease,
\* and an item that is backing off is not under lease
C10_NoEarlyLease ==
  \A kind \in Kinds : \A it \in QueueOf(kind) :
    /\ it.leased => it.notBefore <= 0
    /\ it.notBefore > 0 => ~it.leased /\ it \notin QEligible(QueueOf(kind))
    /\ (it.leased /\ it.attempts > 0) => WithinBackoff(it.waited, it.attempts)

\* a dispatch is under way while an item is still backing off
C10_Witness ==
  /\ mainpc = "setup"
  /\ \E it \in setupQueue : ~it.leased /\ it.notBefore > 0 /\ it.waited > 0
  /\ \E w \in InFlight("setup") : workers[w].pc # "idle"

\* ------------------------------------------------------------------------
\* One item that fails with a retriable error at every attempt (SpecBackoff)
\* ------------------------------------------------------------------------
MaxBackoffAttempts == 8

KeyA1 == MakePRKey(RepoA, 1)

\* a daemon at rest whose setup queue is q
QueueOnly(q, watch) ==
  /\ remote = {}
  /\ HostOff
  /\ cfg = Config(watch)
  /\ concurrency = GetConcurrency(cfg.Watch)
  /\ maxRetries = GetMaxRetries(cfg.Watch)
  /\ mainpc = "idle"
  /\ setupQueue = q
  /\ cleanupQueue = {}
  /\ prData = EmptyMap
  /\ seenPRs = {}
  /\ lastCheck = NoCheck
  /\ worktrees = {}
  /\ docs = {}
  /\ prCache = EmptyMap
  /\ gitMu = FALSE
  /\ workers = [w \in WorkerIds |-> Idle]
  /\ sent = {}

notQueueVars ==
  <<loopVars, cleanupQueue, prData, worktrees, docs, prCache, gitMu, workers, sent>>

\* Lease() of the setup queue
QueueLease ==
  /\ QEligible(setupQueue) # {}
  /\ setupQueue' = QLease(setupQueue, QNext(setupQueue).key)
  /\ UNCHANGED notQueueVars

\* Complete(handle, retriable error) under a cap of MaxBackoffAttempts
BackoffFail ==
  \E it \in setupQueue :
    /\ it.leased
    /\ \E delay \in JitterWindow(it.attempts + 1) :
         setupQueue' = QComplete(setupQueue, it.key, "retriable", MaxBackoffAttempts, delay)
    /\ UNCHANGED notQueueVars

NextBackoff == QueueLease \/ BackoffFail \/ Tick

\* the item has just been enqueued
SpecBackoff ==
  QueueOnly(QEnqueue({}, KeyA1, PollPriority).q, Watch(0, 0, 0)) /\ [][NextBackoff]_vars

\* min(30 s * 2^(a-1), 10 min)
NominalDelay(a) == IF 30 * (2 ^ (a - 1)) < 600 THEN 30 * (2 ^ (a - 1)) ELSE 600

\* the schedule of nominal delays
BackoffSchedule ==
  \A a \in 1..MaxBackoffAttempts :
    /\ BackoffSeconds(a) = NominalDelay(a)
    /\ BackoffSeconds(a) <= 600
    /\ a = 1 => BackoffSeconds(a) = 30
    /\ a > 1 => BackoffSeconds(a) =
                  IF 2 * BackoffSeconds(a - 1) < 600 THEN 2 * BackoffSeconds(a - 1) ELSE 600
    /\ \A b \in a..MaxBackoffAttempts : BackoffSeconds(a) <= BackoffSeconds(b)

\* the delays a retry can get
BackoffJitter ==
  /\ JitterSeconds(1) = 24..36
  /\ \A a \in 1..MaxBackoffAttempts :
       /\ JitterSeconds(a) # {}
       /\ \A s \in JitterSeconds(a) :
            /\ 5 * (s - NominalDelay(a)) <= NominalDelay(a)
            /\ 5 * (NominalDelay(a) - s) <= NominalDelay(a)

\* C11: the nominal delay of attempt a is min(30 s * 2^(a-1), 10 min): 30 s
\* at first, doubling, never above 10 minutes and non-decreasing; the delay
\* an item gets lies within 20 % of it, the first within [24 s, 36 s]
C11_BackoffSchedule ==
  /\ BackoffSchedule
  /\ BackoffJitter
  /\ \A it \in setupQueue :
       (~it.leased /\ it.attempts > 0) =>
         /\ (it.notBefore + it.waited) * TimeUnitSeconds \in JitterSeconds(it.attempts)
         /\ 5 * (it.notBefore + it.waited) * TimeUnitSeconds <= 6 * NominalDelay(it.attempts)
         /\ 5 * (it.notBefore + it.waited) * TimeUnitSeconds >= 4 * NominalDelay(it.attempts)

\* an item waits for its seventh attempt, its delay above the cap of the
\* nominal delay by the jitter
C11_Witness ==
  \E it \in setupQueue :
    /\ ~it.leased /\ it.attempts = 6
    /\ (it.notBefore + it.waited) * TimeUnitSeconds > 600

\* ------------------------------------------------------------------------
\* A queue under Enqueue, Lease and Complete calls in any order (SpecQueue)
\* ------------------------------------------------------------------------
QueueKeys == {MakePRKey(RepoA, 1), MakePRKey(RepoA, 2), MakePRKey(RepoX, 3)}

Priorities == {ScanPriority, PollPriority}

\* Enqueue(key, Options{Priority: priority}); QueueFull is returned to the
\* caller
QueueEnqueue(key, priority) ==
  /\ setupQueue' = QEnqueue(setupQueue, key, priority).q
  /\ UNCHANGED notQueueVars

\* Complete(handle, result) under the cap of the setup dispatcher
QueueComplete(key, result) ==
  /\ key \in QKeys(setupQueue)
  /\ QItem(setupQueue, key).leased
  /\ \E delay \in JitterWindow(QItem(setupQueue, key).attempts + 1) :
       setupQueue' = QComplete(setupQueue, key, result, maxRetries, delay)
  /\ UNCHANGED notQueueVars

NextQueue ==
  \/ \E key \in QueueKeys, priority \in Priorities : QueueEnqueue(key, priority)
  \/ QueueLease
  \/ \E key \in QueueKeys, result \in {"success", "retriable", "terminal"} :
       QueueComplete(key, result)
  \/ Tick

\* the queue starts empty; two attempts are allowed
SpecQueue == QueueOnly({}, Watch(0, 2, 0)) /\ [][NextQueue]_vars


\* ------------------------------------------------------------------------
\* Properties of the queue (SpecQueue)
\* ------------------------------------------------------------------------
\* the more urgent of two priorities: the smaller number
MoreUrgent(p, r) == IF p < r THEN p ELSE r

OneItemEachKey == \A i, j \in setupQueue : i.key = j.key => i = j

\* Enqueue of a key that is present: the keys stay, and the item of the key
\* changes in nothing but its priority, which becomes the more urgent of
\* the two, and in the note that work arrived during a lease
EnqueuePresent ==
  \A key \in QueueKeys, priority \in Priorities :
    (key \in QKeys(setupQueue) /\ QueueEnqueue(key, priority)) =>
      /\ QKeys(setupQueue') = QKeys(setupQueue)
      /\ Cardinality(setupQueue') = Cardinality(setupQueue)
      /\ \A it \in setupQueue : it.key # key => it \in setupQueue'
      /\ \E after \in setupQueue' :
           LET it == QItem(setupQueue, key)
           IN /\ after.key = key
              /\ after.priority = MoreUrgent(priority, it.priority)
              /\ [after EXCEPT !.priority = it.priority, !.again = it.again] = it
              /\ ~it.leased => after.again = it.again

\* C12: a queue holds at most one item per key after any sequence of
\* Enqueue, Lease and Complete; an Enqueue of a present key adds no item and
\* changes the present one only by upgrading its priority when the new one
\* is more urgent
C12_OneItemPerKey == [](OneItemEachKey) /\ [][EnqueuePresent]_vars

\* three keys are queued, one item each; one of them is leased, has had an
\* Enqueue of its key during the lease and holds the more urgent priority
C12_Witness ==
  /\ Cardinality(setupQueue) = 3
  /\ QKeys(setupQueue) = QueueKeys
  /\ \E it \in setupQueue : it.again /\ it.priority = ScanPriority

\* the items Lease can return: not leased, earliest-eligible time reached
EligibleNow(q) == {it \in q : ~it.leased /\ it.notBefore <= 0}

\* the lease of an item: it was eligible, no eligible item was more urgent,
\* and none of its priority was enqueued before it
LeaseInOrder ==
  \A it \in setupQueue :
    (~it.leased /\ \E after \in setupQueue' : after.key = it.key /\ after.leased) =>
      /\ it \in EligibleNow(setupQueue)
      /\ \A o \in EligibleNow(setupQueue) :
           \/ it.priority < o.priority
           \/ it.priority = o.priority /\ it.seq <= o.seq

\* C14: Lease returns, of the items eligible now and not leased, one of the
\* smallest priority and, of these, the one enqueued first
C14_LeaseOrder == [][LeaseInOrder]_vars

\* an item of priority 0 is under lease; an item of priority 1, enqueued
\* before it and never leased, still waits
C14_Witness ==
  \E it, o \in setupQueue :
    /\ it.leased /\ it.priority = 0 /\ it.runs = 1
    /\ ~o.leased /\ o.priority = 1 /\ o.runs = 0 /\ o.seq < it.seq

\* Enqueue(K) while K is leased: no item is added, the item of K stays
\* leased and out of sight of Lease, and the arrival is noted on it
EnqueueWhileLeased ==
  \A key \in QueueKeys, priority \in Priorities :
    (/\ key \in QKeys(setupQueue)
     /\ QItem(setupQueue, key).leased
     /\ QueueEnqueue(key, priority)) =>
      /\ Cardinality(setupQueue') = Cardinality(setupQueue)
      /\ \A after \in setupQueue' :
           after.key = key =>
             after.leased /\ after.again /\ after \notin EligibleNow(setupQueue')

\* no step loses the arrival: the item keeps its note while it is leased,
\* and when the lease has ended, whatever the result, the key is in the
\* queue, free to be leased now
CompleteAfterArrival ==
  \A it \in setupQueue :
    it.again =>
      \E after \in setupQueue' :
        /\ after.key = it.key
        /\ (after.leased /\ after.again) \/ after \in EligibleNow(setupQueue')

\* C15: an Enqueue(K) while K is leased creates no second item that could
\* be leased at the same time and is not lost: it collapses into the leased
\* item, and K is in the queue, eligible, when the lease has completed
C15_EnqueueWhileLeased ==
  /\ [](OneItemEachKey /\ \A it \in setupQueue : it.again => it.leased)
  /\ [][EnqueueWhileLeased /\ CompleteAfterArrival]_vars

\* a leased item has had an Enqueue of its key
C15_Witness ==
  \E it \in setupQueue : it.leased /\ it.again /\ it.runs = 1


\* ------------------------------------------------------------------------
\* A queue near its capacity under Enqueue calls (SpecFull)
\* ------------------------------------------------------------------------
SpareKeys == 2

\* more keys than the queue has room for
FullKeys == {MakePRKey(RepoA, n) : n \in 1..(QueueCapacity + SpareKeys)}

\* the queue after Enqueue of the keys a:1 .. a:n, in this order
RECURSIVE Filled(_)
Filled(n) ==
  IF n = 0 THEN {} ELSE QEnqueue(Filled(n - 1), MakePRKey(RepoA, n), ScanPriority).q

NextFull == \E key \in FullKeys, priority \in Priorities : QueueEnqueue(key, priority)

\* the queue starts three items short of its capacity
SpecFull == QueueOnly(Filled(QueueCapacity - 3), Watch(0, 0, 0)) /\ [][NextFull]_vars

\* C13: a queue of capacity 10 never holds more than 10 items; at capacity
\* an Enqueue of a new key fails with QueueFull and leaves the queue as it
\* is, and an Enqueue of a present key succeeds
C13_CapacityTen ==
  /\ Cardinality(setupQueue) <= 10
  /\ \A key \in FullKeys, priority \in Priorities :
       LET r == QEnqueue(setupQueue, key, priority)
       IN /\ (key \notin QKeys(setupQueue) /\ Cardinality(setupQueue) = 10) =>
               r.err /\ r.q = setupQueue
          /\ (key \notin QKeys(setupQueue) /\ Cardinality(setupQueue) < 10) =>
               ~r.err /\ key \in QKeys(r.q) /\ Cardinality(r.q) = Cardinality(setupQueue) + 1
          /\ key \in QKeys(setupQueue) =>
               ~r.err /\ QKeys(r.q) = QKeys(setupQueue)

\* the queue is full, with keys left over to be refused and an item whose
\* priority an Enqueue can still upgrade
C13_Witness ==
  /\ Cardinality(setupQueue) = 10
  /\ FullKeys \ QKeys(setupQueue) # {}
  /\ \E it \in setupQueue : it.priority = PollPriority /\ it.seq = 10


\* ---------------------------------------------------------------------
\* Parallelism of the two dispatchers, with the configuration reloaded

\* what config.Load can return on a poll tick: the file may have been edited
\* to ask for one setup worker or for the default number
ReloadConfigs == {Config(Watch(0, 2, 0)), Config(Watch(1, 2, 0))}

\* case <-pollTicker.C: reloadConfig, then pollOnce; a failed Load leaves
\* the configuration as it is
PollTick ==
  \E c \in ReloadConfigs \cup {cfg} :
    /\ cfg' = c
    /\ PollWith(c)
    /\ UNCHANGED <<recCfg, tickers>>

NextReload == PollTick \/ Next

\* the daemon starts with either configuration
SpecReload == Started({ReviewA1, ReviewX3}, ReloadConfigs) /\ [][NextReload]_vars

\* the concurrency the configuration in force asks for
ConfiguredConcurrency == IF cfg.Watch.Concurrency > 0 THEN cfg.Watch.Concurrency ELSE 2

\* the workers that are removing a worktree
Removing == {w \in WorkerIds : workers[w].kind = "cleanup" /\ workers[w].pc # "idle"}

\* at most one cleanup reconciliation, hence one removal, at a time
CleanupSerial ==
  /\ Cardinality(InFlight("cleanup")) <= 1
  /\ Cardinality(Removing) <= 1

\* C16: at every instant the setup reconciliations in flight are at most
\* the configured concurrency (2 when none is configured) and at most one
\* cleanup reconciliation is in flight, so that two worktree removals never
\* run in parallel.
C16_Parallelism ==
  /\ Cardinality(InFlight("setup")) <= ConfiguredConcurrency
  /\ CleanupSerial

\* ---------------------------------------------------------------------
\* From Enqueue to the callback and out of the queue

\* the worker w is given a call in this step
Handed(w) == workers[w].pc = "idle" /\ workers'[w].pc # "idle"

\* the call is for the key of an item that was eligible, the item is leased
\* by the step and counts one reconciliation more, and no other worker is
\* given a call
HandedItsKey ==
  \A w \in WorkerIds :
    Handed(w) =>
      LET kind == workers'[w].kind
          key == workers'[w].key
      IN /\ kind = mainpc
         /\ workers'[w].pc = "start"
         /\ \E it \in QEligible(QueueOf(kind)) :
              /\ it.key = key
              /\ \E after \in QueueOfNext(kind) :
                   after.key = key /\ after.leased /\ after.runs = it.runs + 1
         /\ \A v \in WorkerIds \ {w} : workers'[v] = workers[v]

\* a call runs for a leased item only, and every reconciliation an item
\* counts is one lease: the finished ones it failed, and the one in flight
CallsAreLeases ==
  /\ \A w \in WorkerIds :
       workers[w].pc # "idle" =>
         \E it \in QueueOf(workers[w].kind) : it.key = workers[w].key /\ it.leased
  /\ \A kind \in Kinds :
       \A it \in QueueOf(kind) :
         /\ it.runs = it.attempts + (IF it.leased THEN 1 ELSE 0)
         /\ it.leased => Cardinality({w \in InFlight(kind) : workers[w].key = it.key}) = 1

\* a dispatch returns with no eligible item left and no call in flight
DispatchServesAll ==
  \A kind \in Kinds :
    (mainpc = kind /\ mainpc' # kind) =>
      QEligible(QueueOf(kind)) = {} /\ InFlight(kind) = {}

\* the item of a call that returns success leaves the queue
SuccessRemoves ==
  \A w \in WorkerIds :
    (Completes(w) /\ workers[w].result = "success") =>
      workers[w].key \notin QKeys(QueueOfNext(workers[w].kind))

\* C17: an enqueued, eligible key is handed to the reconciler by the next
\* dispatch, once and with that key; when the call returns success the
\* item leaves the queue, and no call is made for a key the queue does not
\* hold.
C17_HandedOnceThenRemoved ==
  /\ [](CallsAreLeases)
  /\ [][HandedItsKey /\ DispatchServesAll /\ SuccessRemoves]_vars

\* a dispatch runs after the setup of PR 1 succeeded: its key has left the
\* queue and no worker has it
C17_Witness ==
  /\ mainpc = "setup"
  /\ <<"ready", 1>> \in sent
  /\ KeyA1 \notin QKeys(setupQueue)
  /\ InFlightOn(KeyA1) = {}
  /\ setupQueue # {}


\* ---------------------------------------------------------------------
\* internal/reconciler/keys.go on its own: keys made and keys parsed

MaxNameLen == 2
MaxPRNumber == 11
MaxKeyLen == 3

SeqsUpTo(S, n) == UNION {[1..k -> S] : k \in 0..n}

\* repository names, the empty one left out; ':' is a character like any
RepoNameInputs == SeqsUpTo({"a", "1", ":"}, MaxNameLen) \ {<<>>}

\* keys as a caller may hand them to Reconcile
RawKeys == SeqsUpTo({"a", "1", ":", "-"}, MaxKeyLen)

\* key := MakePRKey(pr.Repository.Name, pr.Number); rec.StorePRData(key, pr):
\* the payload stored under the key keeps the name and the number
MakeKey(r, n) ==
  /\ prData = EmptyMap
  /\ workers[1] = Idle
  /\ prData' = MapSet(prData, MakePRKey(r, n), Review(n, r, "alice", "t1"))
  /\ UNCHANGED <<loopVars, queueVars, worktrees, docs, prCache, gitMu, workers, sent>>

\* repo, number, err := ParsePRKey(key), the first statement of Reconcile
ParseKey(key) ==
  /\ workers[1] = Idle
  /\ key \in DOMAIN prData \/ prData = EmptyMap
  /\ LET p == ParsePRKey(key)
     IN workers' = [workers EXCEPT ![1] =
                      [Call("parsed", "setup", key, NoPre) EXCEPT
                         !.repo = p.repo, !.number = p.number,
                         !.result = IF p.err THEN "terminal" ELSE "none"]]
  /\ UNCHANGED <<loopVars, queueVars, prData, worktrees, docs, prCache, gitMu, sent>>

NextKeys ==
  \/ \E r \in RepoNameInputs, n \in 0..MaxPRNumber : MakeKey(r, n)
  \/ \E key \in RawKeys \cup DOMAIN prData : ParseKey(key)

SpecKeys == QueueOnly({}, Watch(0, 0, 0)) /\ [][NextKeys]_vars

\* the text is an integer: digits, or a sign and digits
IsInteger(s) ==
  \/ Len(s) >= 1 /\ \A i \in 1..Len(s) : IsDigit(s[i])
  \/ Len(s) >= 2 /\ s[1] \in {"+", "-"} /\ \A i \in 2..Len(s) : IsDigit(s[i])

HasColon(s) == \E i \in 1..Len(s) : s[i] = ":"

\* what follows the first ':' of a text that has one
AfterFirstColon(s) ==
  LET i == CHOOSE j \in 1..Len(s) : s[j] = ":" /\ \A k \in 1..(j - 1) : s[k] # ":"
  IN SubSeq(s, i + 1, Len(s))

\* the call of ParsePRKey that has just been made
Parsed == workers[1].pc = "parsed"

\* the keys made of the names in names and a number n >= 0 parse to them
RoundTripOf(names) ==
  \A key \in DOMAIN prData :
    LET pr == prData[key]
    IN (Parsed /\ workers[1].key = key /\ pr.RepoName \in names /\ pr.Number >= 0) =>
         /\ workers[1].result # "terminal"
         /\ workers[1].repo = pr.RepoName
         /\ workers[1].number = pr.Number

\* a key without ':' or with no integer after its first ':' is an error
MalformedIsError ==
  (Parsed /\ (~HasColon(workers[1].key) \/ ~IsInteger(AfterFirstColon(workers[1].key)))) =>
    workers[1].result = "terminal"

\* C18: ParsePRKey(MakePRKey(r, n)) = (r, n, nil) for every non-empty
\* repository name r that contains no ':' and every n >= 0, and ParsePRKey
\* returns an error for every key that has no ':' or whose part after the
\* first ':' is not an integer.
C18_KeyRoundTrip ==
  /\ RoundTripOf({r \in RepoNameInputs : ~HasColon(r)})
  /\ MalformedIsError

\* the key of a name with a digit in it and of a number of two digits has
\* been parsed
C18_Witness ==
  /\ Parsed
  /\ workers[1].key \in DOMAIN prData
  /\ prData[workers[1].key].RepoName = <<"a", "1">>
  /\ prData[workers[1].key].Number = MaxPRNumber

\* C18 as stated: the round trip for every non-empty repository name
C18_AnyName == RoundTripOf(RepoNameInputs) /\ MalformedIsError


\* ---------------------------------------------------------------------
\* internal/worktree Classify on its own: directory names classified

MaxSuffixLen == 2

\* directory names: what stands before the infix, an infix or something
\* close to it, and what ends the name
NameInputs ==
  {head \o mid \o tail :
     head \in {<<>>, <<"a">>, <<"a", "-">>, <<"1">>, <<"a">> \o PrInfix \o <<"1">>},
     mid \in {PrInfix, <<"-", "p", "r">>, <<"p", "r", "-">>, <<"-", "P", "R", "-">>, <<"-">>},
     tail \in SeqsUpTo({"0", "1", "a"}, MaxSuffixLen)}

\* a worktree directory of that name is added by hand to the clone of a
AddNamed(name) ==
  /\ worktrees = {}
  /\ workers[0] = Idle
  /\ worktrees' = {[path |-> <<BaseB, name>>, origin |-> <<BaseB, RepoA>>]}
  /\ UNCHANGED <<loopVars, queueVars, prData, docs, prCache, gitMu, workers, sent>>

\* name := filepath.Base(path); wtype, pr := Classify(name): the call keeps
\* the name as its key, the type as its kind and pr as its number
ClassifyListed ==
  /\ workers[0] = Idle
  /\ \E d \in worktrees :
       LET c == Classify(d.path[2])
       IN workers' = [workers EXCEPT ![0] =
                        [Call("classified", c.Type, d.path[2], NoPre) EXCEPT
                           !.number = c.PRNumber]]
  /\ UNCHANGED <<loopVars, queueVars, prData, worktrees, docs, prCache, gitMu, sent>>

NextClassify == ClassifyListed \/ \E name \in NameInputs : AddNamed(name)

SpecClassify == QueueOnly({}, Watch(0, 0, 0)) /\ [][NextClassify]_vars

\* the values k for which the name is <repo>-pr-<k>, k written in digits
PRForm(name) ==
  {DigitsVal(SubSeq(name, i + 4, Len(name))) :
     i \in {j \in 1..(Len(name) - 4) :
              /\ SubSeq(name, j, j + 3) = <<"-", "p", "r", "-">>
              /\ \A d \in (j + 4)..Len(name) : IsDigit(name[d])}}

\* the call of Classify that has just been made
Classified == workers[0].pc = "classified"

\* the names of the form with k >= least are PR reviews of number k, every
\* other name is a feature of number 0
ClassifiedFrom(least) ==
  Classified =>
    LET name == workers[0].key
    IN IF \E k \in PRForm(name) : k >= least
         THEN workers[0].kind = "pr-review" /\ workers[0].number \in PRForm(name)
         ELSE workers[0].kind = "feature" /\ workers[0].number = 0

SeenResponses ==
  {reviews \in ReviewLists(remote) :
     \A i \in 1..Len(reviews) : SeenKey(reviews[i]) \in seenPRs}

\* what the loop of pollOnce makes of a response in the state at hand
Polled(reviews) ==
  PollLoop([seen |-> seenPRs, data |-> prData, queue |-> setupQueue, sent |-> sent],
           reviews, cfg)

\* a response of seen pull requests: nothing is notified, stored or enqueued
SeenPollQuiet ==
  \A reviews \in SeenResponses :
    /\ Polled(reviews).sent = sent
    /\ Polled(reviews).data = prData
    /\ Polled(reviews).queue = setupQueue
    /\ Polled(reviews).seen = seenPRs

\* no review notification has been sent twice
NotifiedOnce == \A msg \in sent : msg[1] = "repeated" => msg[2][1] # "review"

\* a poll that found no new pull request (it wrote its checkpoint, the seen
\* set is as it was) has changed nothing else: no notification, no payload,
\* no item, no reconciliation started and nothing on disk
QuietPollStep ==
  (lastCheck' # lastCheck /\ seenPRs' = seenPRs) =>
    /\ sent' = sent
    /\ prData' = prData
    /\ setupQueue' = setupQueue
    /\ cleanupQueue' = cleanupQueue
    /\ workers' = workers
    /\ worktrees' = worktrees /\ docs' = docs /\ prCache' = prCache

\* a key comes into the setup queue, and a review is notified, only with a
\* pull request that had not been seen and is seen from then on
OnceSeenNeverAgain ==
  /\ seenPRs \subseteq seenPRs'
  /\ \A key \in QKeys(setupQueue') \ QKeys(setupQueue) :
       /\ Itoa(ParsePRKey(key).number) \notin seenPRs
       /\ Itoa(ParsePRKey(key).number) \in seenPRs'
  /\ \A msg \in sent' \ sent :
       msg[1] = "review" => Itoa(msg[2]) \in seenPRs' \ seenPRs

HardCodedRepo == "chainguard-dev/mono"

\* ghpkg.GetReviewRequests(ctx, "chainguard-dev/mono")
QueriedRepos(c) == {HardCodedRepo}

RepoM == <<"m">>

\* a review request as the hosting service holds it: repository { name
\* nameWithOwner }
Request(n, repoName, fullName, login) ==
  [Number |-> n, Title |-> "t", Author |-> login, RepoName |-> repoName,
   FullName |-> fullName]

\* the review requests of the user: two in the repository of the query, of
\* which one by an author the configuration does not list, and one in
\* another repository of the configuration
Service ==
  {Request(1, RepoM, HardCodedRepo, "alice"),
   Request(9, RepoM, HardCodedRepo, "mallory"),
   Request(2, RepoA, "o/a", "alice")}

\* the search of the query: repo:<repoFilter>
Answer(service, repos) == {pr \in service : pr.FullName \in repos}

\* config.yaml with the repository of the query under the short name short
ConfigOf(short) ==
  [Repos |-> (short :> [FullName |-> HardCodedRepo, BasePath |-> BaseB]) @@
             (RepoA :> [FullName |-> "o/a", BasePath |-> BaseB]),
   Authors |-> {"alice"},
   Watch |-> Watch(1, 2, 0)]

\* a start that loads no seen set
LoadNothing(check) == {}

\* a last_check.json that json.Unmarshal rejects
Unreadable(check) == "unreadable" \in DOMAIN check

\* a start that takes the seen set out of whatever the file holds
LoadUnchecked(check) == check.SeenPRs

\* loadSeenPRs: the seen_prs of last_check.json, none when there is no
\* file or when it cannot be parsed; the order of the list is lost in the
\* map it is read into
LoadSeenPRs(check) == IF Unreadable(check) THEN {} ELSE check.SeenPRs

\* the daemon has left its loop between two handlers and is started again:
\* the queues, the payloads and the seen set of the process are gone, the
\* files stay
Restart ==
  /\ mainpc = "idle"
  /\ seenPRs' = LoadSeenPRs(lastCheck)
  /\ setupQueue' = {}
  /\ cleanupQueue' = {}
  /\ prData' = EmptyMap
  /\ concurrency' = GetConcurrency(cfg.Watch)
  /\ maxRetries' = GetMaxRetries(cfg.Watch)
  /\ UNCHANGED <<hostVars, remote, cfg, mainpc, lastCheck, worktrees, docs, prCache, gitMu,
                 workers, sent>>

NextPoll == Restart \/ Next

\* the repository of the query is configured under its own name or under
\* another short name
SpecPoll ==
  /\ Started(Answer(Service, QueriedRepos(ConfigOf(RepoM))), {ConfigOf(RepoM), ConfigOf(RepoY)})
  /\ [][NextPoll]_vars


\* the notification msg is sent between the sets before and after
Emitted(before, after, msg) ==
  \/ msg \in after \ before
  \/ <<"repeated", msg>> \in after \ before

\* whatever the response, the seen set gains all its pull requests, and an
\* unseen one by an author the configuration does not list is notified,
\* with no payload stored and no item enqueued for it
NonAuthorNoted ==
  \A reviews \in ReviewLists(remote) :
    LET after == Polled(reviews)
    IN /\ after.seen = seenPRs \cup {SeenKey(reviews[i]) : i \in 1..Len(reviews)}
       /\ \A i \in 1..Len(reviews) :
            LET pr == reviews[i]
            IN (SeenKey(pr) \notin seenPRs /\ pr.Author \notin cfg.Authors) =>
                 /\ Emitted(sent, after.sent, <<"review", pr.Number>>)
                 /\ PollKey(pr) \notin DOMAIN after.data
                 /\ PollKey(pr) \notin QKeys(after.queue)

\* a step in which the seen set gains a number is the poll of a pull
\* request of that number, notified in the step and, when its author is not
\* listed, left without payload and without item
SeenByPoll ==
  \A key \in seenPRs' \ seenPRs :
    \E pr \in remote :
      /\ SeenKey(pr) = key
      /\ Emitted(sent, sent', <<"review", pr.Number>>)
      /\ pr.Author \notin cfg'.Authors =>
           /\ PollKey(pr) \notin DOMAIN prData'
           /\ PollKey(pr) \notin QKeys(setupQueue')

\* C21: for an unseen pull request whose author is not in the configured
\* author list the poller emits the new-review-request notification, stores
\* no payload, enqueues nothing and adds the number to the seen set; the seen
\* set gains every unseen pull request of a poll, whoever its author.
C21_NonAuthorSeenNotQueued == [](NonAuthorNoted) /\ [][SeenByPoll]_vars

\* the pull request of the unlisted author has been seen and notified and
\* has no payload and no item, while the other one is queued
C21_Witness ==
  /\ {Itoa(1), Itoa(9)} \subseteq seenPRs
  /\ <<"review", 9>> \in sent
  /\ MakePRKey(RepoM, 9) \notin DOMAIN prData
  /\ QKeys(setupQueue) = {MakePRKey(RepoM, 1)}


\* between polls the checkpoint on disk holds the seen set: what a start
\* would load contains every number the daemon has seen
SeenIsSaved == seenPRs \subseteq LoadSeenPRs(lastCheck)

\* C22: once a poll has observed a pull request number no later poll
\* notifies or enqueues it again, also after the daemon was stopped and
\* started: the seen set loaded at startup contains every number of the
\* seen set of the last checkpoint written.
C22_SeenSurvivesRestart ==
  /\ [](SeenIsSaved /\ NotifiedOnce)
  /\ [][OnceSeenNeverAgain]_vars

\* the daemon was started again after it had seen both pull requests: the
\* seen set is back, the payloads and the queue of the old process are gone,
\* and no notification was repeated by the polls since
C22_Witness ==
  /\ seenPRs = {Itoa(1), Itoa(9)}
  /\ prData = EmptyMap
  /\ setupQueue = {}
  /\ \A w \in WorkerIds : workers[w] = Idle
  /\ lastCheck.PRCount = 2
  /\ {<<"review", 1>>, <<"review", 9>>} \subseteq sent


\* C23: every key the poller enqueues is MakePRKey(s, n) with s the short
\* name under which the repository of the pull request is configured, so
\* that the setup reconciler resolves a repository configuration for it.
C23_KeysUseShortNames ==
  \A item \in setupQueue :
    LET p == ParsePRKey(item.key)
    IN /\ ~p.err
       /\ p.repo \in DOMAIN cfg.Repos
       /\ RepoBasePath(cfg, p.repo) # ""
       /\ item.key \in DOMAIN prData =>
            /\ cfg.Repos[p.repo].FullName = prData[item.key].FullName
            /\ item.key = MakePRKey(p.repo, prData[item.key].Number)


\* the owner/name of every configured repository
ConfiguredRepos(c) == {c.Repos[s].FullName : s \in DOMAIN c.Repos}

\* C24: each poll queries the review requests of every configured
\* repository and of no other; no repository name is hard-coded.
C24_QueriesConfiguredRepos ==
  /\ QueriedRepos(cfg) = ConfiguredRepos(cfg)
  /\ remote = Answer(Service, ConfiguredRepos(cfg))


\* the key of the cleanup item of worktree w
ScanKey(w) == MakePRKey(w.Repo, w.PRNumber)

\* whatever the state queries and the ages return, the scan of the current
\* worktrees leaves in the queue a new key exactly for the PR-review
\* worktrees found MERGED with an age of at least the configured days: a
\* failed query, an open or closed pull request, and a worktree without a
\* datable commit add nothing, and do not keep the others from their item
ScanEnqueuesMergedOld ==
  LET wts == ListAll(cfg, worktrees)
      days == GetCleanupAfterDays(cfg.Watch)
  IN \A state \in [wts -> PRStates], age \in [wts -> AgeResults] :
       \A order \in Orders({w \in wts : ScanSelects(w, state[w], age[w], days)}) :
         LET q == ScanLoop(cleanupQueue, order)
         IN \A w \in wts :
              /\ ScanKey(w) \in QKeys(q) \ QKeys(cleanupQueue) =>
                   /\ w.Type = "pr-review"
                   /\ state[w] = "MERGED"
                   /\ age[w] >= 0 /\ age[w] >= days
              /\ (w.Type = "pr-review" /\ w.PRNumber # 0 /\ state[w] = "MERGED"
                    /\ age[w] >= days) =>
                   ScanKey(w) \in QKeys(q)

\* a key comes into the cleanup queue only for a PR-review worktree on disk
ScanOnlyWorktrees ==
  \A key \in QKeys(cleanupQueue') \ QKeys(cleanupQueue) :
    \E w \in ListAll(cfg, worktrees) : w.Type = "pr-review" /\ ScanKey(w) = key

\* C25: the cleanup scan enqueues a key only for a PR-review worktree whose
\* pull request is MERGED and whose age in whole days is at least
\* cleanup_after_days (an equal age is enqueued); a failed state query, an
\* open or closed pull request or an undatable worktree is never enqueued,
\* and a failing query does not stop the scan.
C25_ScanMergedOld == [](ScanEnqueuesMergedOld) /\ [][ScanOnlyWorktrees]_vars

\* two PR-review worktrees were scanned, one was enqueued for cleanup and
\* the other one was passed over
C25_Witness ==
  /\ Cardinality({w \in ListAll(cfg, worktrees) : w.Type = "pr-review"}) = 2
  /\ QKeys(cleanupQueue) = {KeyA1}
  /\ workers[0] = Idle


\* ------------------------------------------------------------------------
\* cmd/watch: start, stop and the daemon processes of one state directory
\* ------------------------------------------------------------------------
MaxPid == 3
MaxStarts == 2

Pids == 1..MaxPid
StartIds == 1..MaxStarts

\* everything but the host
loopState ==
  <<remote, cfg, concurrency, maxRetries, mainpc, setupQueue, cleanupQueue, prData,
    seenPRs, lastCheck, worktrees, docs, prCache, gitMu, workers, sent>>

\* a process: where it is, a signal waiting in sigCh, the root context
\* cancelled, and its exit status
NoProc == [pc |-> "none", sig |-> FALSE, ctx |-> FALSE, status |-> -1]

\* syscall.Kill(pid, 0) succeeds
Alive(pid) == procs[pid].pc \in {"boot", "loop"}

\* watchIsRunning: the pid file names a live process
IsRunning == pidFile # 0 /\ Alive(pidFile)

\* `zen watch start` is invoked
StartBegin(i) ==
  /\ starts[i].pc = "off"
  /\ starts' = [starts EXCEPT ![i].pc = "check"]
  /\ UNCHANGED <<pidFile, procs, configFile, recCfg, tickers, loopState>>

\* watchStart, the call of watchIsRunning: it returns when the daemon runs,
\* and removes the pid file of a process that is gone
StartCheck(i) ==
  /\ starts[i].pc = "check"
  /\ IF IsRunning
       THEN /\ starts' = [starts EXCEPT ![i].pc = "done"]
            /\ UNCHANGED pidFile
       ELSE /\ starts' = [starts EXCEPT ![i].pc = "spawn"]
            /\ pidFile' = 0
  /\ UNCHANGED <<procs, configFile, recCfg, tickers, loopState>>

\* watchStart: os.StartProcess(binPath, {"watch", "daemon"})
StartSpawn(i) ==
  /\ starts[i].pc = "spawn"
  /\ \E p \in Pids :
       /\ procs[p].pc = "none"
       /\ procs' = [procs EXCEPT ![p].pc = "boot"]
       /\ starts' = [starts EXCEPT ![i] = [pc |-> "write", pid |-> p]]
  /\ UNCHANGED <<pidFile, configFile, recCfg, tickers, loopState>>

\* watchStart: os.WriteFile(pidFile(), proc.Pid)
StartWrite(i) ==
  /\ starts[i].pc = "write"
  /\ pidFile' = starts[i].pid
  /\ starts' = [starts EXCEPT ![i].pc = "done"]
  /\ UNCHANGED <<procs, configFile, recCfg, tickers, loopState>>

\* `zen watch daemon` from a shell: watchDaemon is entered unconditionally
DaemonEntry ==
  /\ \E p \in Pids :
       /\ procs[p].pc = "none"
       /\ procs' = [procs EXCEPT ![p].pc = "boot"]
  /\ UNCHANGED <<pidFile, starts, configFile, recCfg, tickers, loopState>>

\* watchDaemon up to its loop: the pid file is written with os.Getpid()
DaemonBoot(p) ==
  /\ procs[p].pc = "boot"
  /\ pidFile' = p
  /\ procs' = [procs EXCEPT ![p].pc = "loop"]
  /\ UNCHANGED <<starts, configFile, recCfg, tickers, loopState>>

\* watchStop: SIGTERM to the process of the pid file, which is removed
Stop ==
  /\ IsRunning
  /\ procs[pidFile].pc = "loop"
  /\ procs' = [procs EXCEPT ![pidFile].sig = TRUE]
  /\ pidFile' = 0
  /\ UNCHANGED <<starts, configFile, recCfg, tickers, loopState>>

\* go func() { <-sigCh; cancel() }()
Cancel(p) ==
  /\ procs[p].pc = "loop"
  /\ procs[p].sig /\ ~procs[p].ctx
  /\ procs' = [procs EXCEPT ![p].sig = FALSE, ![p].ctx = TRUE]
  /\ UNCHANGED <<pidFile, starts, configFile, recCfg, tickers, loopState>>

\* case <-ctx.Done(): os.Remove(pidFile()); return nil, of a daemon whose
\* handlers are not looked into
Exit(p) ==
  /\ procs[p].pc = "loop"
  /\ procs[p].ctx
  /\ pidFile' = 0
  /\ procs' = [procs EXCEPT ![p].pc = "exited", ![p].status = 0]
  /\ UNCHANGED <<starts, configFile, recCfg, tickers, loopState>>

NextHost ==
  \/ \E i \in StartIds : StartBegin(i) \/ StartCheck(i) \/ StartSpawn(i) \/ StartWrite(i)
  \/ DaemonEntry
  \/ \E p \in Pids : DaemonBoot(p)
  \/ Stop
  \/ \E p \in Pids : Cancel(p)
  \/ \E p \in Pids : Exit(p)

\* no daemon and no pid file, the loop of no process looked into
SpecHost ==
  /\ Booted({}, {Config(Watch(1, 2, 0))})
  /\ worktrees = {}
  /\ pidFile = 0
  /\ procs = [p \in Pids |-> NoProc]
  /\ starts = [i \in StartIds |-> [pc |-> "off", pid |-> 0]]
  /\ configFile = "missing" /\ recCfg = <<>> /\ tickers = <<>>
  /\ [][NextHost]_vars

\* the daemons that are running
Daemons == {p \in Pids : Alive(p)}

\* a process is created only while the pid file names no live process
StartedWhenNoneRuns ==
  (\E p \in Pids : procs[p].pc = "none" /\ procs'[p].pc = "boot") => ~IsRunning

\* C26: at most one daemon process runs per state directory at any time: a
\* daemon is not started while the pid file references a live process, for
\* every interleaving of `start` invocations and of direct entries into the
\* daemon main loop.
C26_OneDaemon == [](Cardinality(Daemons) <= 1) /\ [][StartedWhenNoneRuns]_vars


\* ------------------------------------------------------------------------
\* cmd/watch: the daemon is told to stop while its loop runs
\* ------------------------------------------------------------------------
\* the process whose loop, queues and workers are looked into
LoopPid == 1

\* SIGTERM or SIGINT is delivered to the daemon in its loop; sigCh holds one
Signal ==
  /\ procs[LoopPid].pc = "loop"
  /\ ~procs[LoopPid].sig
  /\ procs' = [procs EXCEPT ![LoopPid].sig = TRUE]
  /\ UNCHANGED <<pidFile, starts, configFile, recCfg, tickers, loopState>>

\* a daemon that returns and leaves its pid file behind
LoopExitLeavesPidFile ==
  /\ mainpc = "idle"
  /\ procs[LoopPid].pc = "loop"
  /\ procs[LoopPid].ctx
  /\ mainpc' = "exited"
  /\ procs' = [procs EXCEPT ![LoopPid].pc = "exited", ![LoopPid].status = 0]
  /\ UNCHANGED <<pidFile, starts, configFile, recCfg, tickers>>
  /\ UNCHANGED <<remote, cfg, concurrency, maxRetries, setupQueue, cleanupQueue, prData,
                 seenPRs, lastCheck, worktrees, docs, prCache, gitMu, workers, sent>>

\* case <-ctx.Done() of the select, taken between two handlers:
\* os.Remove(pidFile()); return nil
LoopExit ==
  /\ mainpc = "idle"
  /\ procs[LoopPid].pc = "loop"
  /\ procs[LoopPid].ctx
  /\ mainpc' = "exited"
  /\ pidFile' = 0
  /\ procs' = [procs EXCEPT ![LoopPid].pc = "exited", ![LoopPid].status = 0]
  /\ UNCHANGED <<starts, configFile, recCfg, tickers>>
  /\ UNCHANGED <<remote, cfg, concurrency, maxRetries, setupQueue, cleanupQueue, prData,
                 seenPRs, lastCheck, worktrees, docs, prCache, gitMu, workers, sent>>

\* the steps of a handler that is running: the dispatch and its workers
HandlerStep ==
  \/ \E kind \in {"setup", "cleanup"} : Lease(kind)
  \/ \E w \in WorkerIds : Step(w)
  \/ \E w \in WorkerIds : Complete(w)
  \/ SetupDispatchReturn
  \/ CleanupDispatchReturn

NextStop == Signal \/ Stop \/ Cancel(LoopPid) \/ LoopExit \/ Next

\* the daemon runs with its pid file written. The signal goroutine and a
\* running handler go on (weak fairness); the select of the loop takes one
\* of its ready cases at random, so that a case that is ready at every
\* select is taken at last (strong fairness)
SpecStop ==
  /\ Booted({ReviewA1}, {Config(Watch(1, 2, 0))})
  /\ pidFile = LoopPid
  /\ procs = [p \in Pids |-> IF p = LoopPid THEN [NoProc EXCEPT !.pc = "loop"] ELSE NoProc]
  /\ starts = [i \in StartIds |-> [pc |-> "done", pid |-> 0]]
  /\ configFile = "missing" /\ recCfg = <<>> /\ tickers = <<>>
  /\ [][NextStop]_vars
  /\ WF_vars(Cancel(LoopPid))
  /\ WF_vars(HandlerStep)
  /\ SF_vars(LoopExit)

\* the daemon has returned nil with the context cancelled and no pid file
Stopped ==
  /\ procs[LoopPid].pc = "exited"
  /\ procs[LoopPid].status = 0
  /\ procs[LoopPid].ctx
  /\ mainpc = "exited"
  /\ pidFile = 0

\* the daemon leaves between two handlers, with no reconciliation in flight,
\* its context cancelled, and removes the pid file
ExitAfterHandler ==
  (procs[LoopPid].pc = "loop" /\ procs'[LoopPid].pc = "exited") =>
    /\ procs[LoopPid].ctx
    /\ mainpc = "idle"
    /\ \A w \in WorkerIds : workers[w] = Idle
    /\ pidFile' = 0
    /\ procs'[LoopPid].status = 0

\* C27: after SIGTERM or SIGINT is delivered to a running daemon, the daemon
\* eventually (its control loop being scheduled fairly) cancels the root
\* context, removes the pid file and exits with status 0, after the handler
\* running at that moment has returned.
C27_SignalStops ==
  /\ procs[LoopPid].sig ~> procs[LoopPid].ctx
  /\ procs[LoopPid].sig ~> Stopped
  /\ [][ExitAfterHandler]_vars

\* the daemon has stopped on a signal after a setup that was completed: the
\* worktree has its context and its notification
C27_Witness ==
  /\ Stopped
  /\ WorktreePath(BaseB, RepoA, 1) \in docs
  /\ <<"ready", 1>> \in sent


\* ------------------------------------------------------------------------
\* cmd/watch: config.yaml is edited while the daemon runs
\* ------------------------------------------------------------------------
\* durations are in seconds; 0 stands for a setting that is absent or that
\* time.ParseDuration rejects
DefaultPollSeconds == 300
DefaultDispatchSeconds == 10
DefaultCleanupSeconds == 3600

\* the poll interval of watchDaemon and of reloadConfig
PollIntervalOf(c) == IF c.PollInterval > 0 THEN c.PollInterval ELSE DefaultPollSeconds

DispatchIntervalDuration(w) ==
  IF w.DispatchInterval > 0 THEN w.DispatchInterval ELSE DefaultDispatchSeconds

CleanupIntervalDuration(w) ==
  IF w.CleanupInterval > 0 THEN w.CleanupInterval ELSE DefaultCleanupSeconds

HotWatch(conc, retries, days, dispatch, cleanup) ==
  [Concurrency |-> conc, MaxRetries |-> retries, CleanupAfterDays |-> days,
   DispatchInterval |-> dispatch, CleanupInterval |-> cleanup]

HotConfig(poll, authors, watch) ==
  [Repos |-> ReposCfg, Authors |-> authors, PollInterval |-> poll, Watch |-> watch]

\* the configuration the daemon starts with, one with another poll interval
\* and no author, and one with other watch settings
HotConfigs ==
  {HotConfig(0, {"alice"}, HotWatch(1, 2, 0, 0, 0)),
   HotConfig(60, {}, HotWatch(1, 2, 0, 0, 0)),
   HotConfig(0, {"alice"}, HotWatch(2, 1, 4, 5, 60))}

\* config.yaml: a file that parses into c, or one that cannot be read or
\* parsed, for which c is the zero Config
File(kind, c) == [kind |-> kind, cfg |-> c]

NoConfig == HotConfig(0, {}, HotWatch(0, 0, 0, 0, 0))

Files ==
  {File("yaml", c) : c \in HotConfigs} \cup
  {File("missing", NoConfig), File("malformed", NoConfig)}

\* config.Load: an error for a file that cannot be read or parsed
Load(file) == [err |-> file.kind # "yaml", cfg |-> file.cfg]

\* the tickers watchDaemon creates; reset tells whether the last reload
\* reset the poll ticker
NewTickers(c) ==
  [poll |-> PollIntervalOf(c), dispatch |-> DispatchIntervalDuration(c.Watch),
   cleanup |-> CleanupIntervalDuration(c.Watch), reset |-> FALSE]

\* a reload that informs the setup reconciler only
ReloadConfigSetupOnly(file, c, rec, t) ==
  LET loaded == Load(file)
  IN IF loaded.err THEN [cfg |-> c, rec |-> rec, tickers |-> t]
     ELSE [cfg |-> loaded.cfg,
           rec |-> [rec EXCEPT !.setup = loaded.cfg],
           tickers |-> [t EXCEPT !.poll = PollIntervalOf(loaded.cfg),
                                 !.reset = PollIntervalOf(c) # PollIntervalOf(loaded.cfg)]]

\* reloadConfig, from the configuration c, the reconcilers' rec and the
\* tickers t: what they are when it returns
ReloadConfig(file, c, rec, t) ==
  LET loaded == Load(file)
  IN IF loaded.err THEN [cfg |-> c, rec |-> rec, tickers |-> t]
     ELSE [cfg |-> loaded.cfg,
           rec |-> [setup |-> loaded.cfg, cleanup |-> loaded.cfg],
           tickers |-> [t EXCEPT !.poll = PollIntervalOf(loaded.cfg),
                                 !.reset = PollIntervalOf(c) # PollIntervalOf(loaded.cfg)]]

\* config.yaml is edited, removed or damaged
EditConfig ==
  /\ \E file \in Files :
       /\ file # configFile
       /\ configFile' = file
  /\ UNCHANGED <<pidFile, procs, starts, recCfg, tickers, loopState>>

\* case <-pollTicker.C: reloadConfig(setupRec, cleanupRec, pollTicker), then
\* pollOnce
ReloadTick ==
  LET after == ReloadConfig(configFile, cfg, recCfg, tickers)
  IN /\ cfg' = after.cfg
     /\ recCfg' = after.rec
     /\ tickers' = after.tickers
     /\ PollWith(after.cfg)

NextHot == EditConfig \/ ReloadTick \/ Next

\* the daemon has started with the first configuration
SpecHot ==
  /\ Booted({ReviewA1}, {HotConfig(0, {"alice"}, HotWatch(1, 2, 0, 0, 0))})
  /\ pidFile = LoopPid
  /\ procs = [p \in Pids |-> IF p = LoopPid THEN [NoProc EXCEPT !.pc = "loop"] ELSE NoProc]
  /\ starts = [i \in StartIds |-> [pc |-> "done", pid |-> 0]]
  /\ configFile = File("yaml", cfg)
  /\ recCfg = [setup |-> cfg, cleanup |-> cfg]
  /\ tickers = NewTickers(cfg)
  /\ [][NextHot]_vars


\* whatever config.yaml holds, a reload from the current state changes
\* nothing when the file cannot be loaded, and otherwise gives the loaded
\* configuration to the daemon and to both reconcilers and resets the poll
\* ticker exactly when its period is not the new poll interval
ReloadAllOrNothing ==
  \A file \in Files :
    LET after == ReloadConfig(file, cfg, recCfg, tickers)
    IN IF file.kind # "yaml"
         THEN after.cfg = cfg /\ after.rec = recCfg /\ after.tickers = tickers
         ELSE /\ after.cfg = file.cfg
              /\ after.rec.setup = file.cfg /\ after.rec.cleanup = file.cfg
              /\ after.tickers.poll = PollIntervalOf(file.cfg)
              /\ after.tickers.reset <=> (tickers.poll # PollIntervalOf(file.cfg))
              /\ after.tickers.dispatch = tickers.dispatch
              /\ after.tickers.cleanup = tickers.cleanup

\* the daemon, both reconcilers and the poll ticker agree
SameConfigEverywhere ==
  /\ recCfg.setup = cfg /\ recCfg.cleanup = cfg
  /\ tickers.poll = PollIntervalOf(cfg)

\* no step changes the configuration in force while the file cannot be
\* loaded; a step that changes it takes the file's, and its poll already
\* enqueues by the authors of the new configuration
ReloadBeforePoll ==
  /\ configFile.kind # "yaml" => (cfg' = cfg /\ recCfg' = recCfg /\ tickers' = tickers)
  /\ cfg' # cfg =>
       /\ cfg' = configFile.cfg
       /\ recCfg' = [setup |-> cfg', cleanup |-> cfg']
       /\ \A key \in QKeys(setupQueue') \ QKeys(setupQueue) :
            prData'[key].Author \in cfg'.Authors

\* C28: a config reload on a poll tick is all-or-nothing: with the file
\* missing or malformed the daemon's config, both reconcilers' config and
\* the poll ticker stay as they were; when it loads, the daemon and both
\* reconcilers hold the new config before the poll of that tick runs, and
\* the poll ticker is reset if and only if the poll interval changed.
C28_ReloadAllOrNothing ==
  /\ [](ReloadAllOrNothing /\ SameConfigEverywhere)
  /\ [][ReloadBeforePoll]_vars

\* the configuration with another poll interval and no author was loaded,
\* the ticker was reset, the poll of that tick saw the pull request and did
\* not enqueue it, and the file has been damaged since
C28_Witness ==
  /\ cfg = HotConfig(60, {}, HotWatch(1, 2, 0, 0, 0))
  /\ recCfg = [setup |-> cfg, cleanup |-> cfg]
  /\ tickers.poll = 60 /\ tickers.reset
  /\ configFile.kind = "malformed"
  /\ seenPRs = {Itoa(1)} /\ prData = EmptyMap /\ setupQueue = {}


\* C29: after config.yaml is changed every setting the daemon uses takes its
\* new value from the next poll tick on, without a restart: the poll
\* interval, authors and repos, which the loop reads from the configuration
\* it holds, and the watch settings dispatch_interval, cleanup_interval,
\* cleanup_after_days, concurrency and max_retries: what the loop uses is at
\* all times what the configuration loaded last says.
C29_SettingsInForce ==
  /\ tickers.poll = PollIntervalOf(cfg)
  /\ tickers.dispatch = DispatchIntervalDuration(cfg.Watch)
  /\ tickers.cleanup = CleanupIntervalDuration(cfg.Watch)
  /\ concurrency = GetConcurrency(cfg.Watch)
  /\ maxRetries = GetMaxRetries(cfg.Watch)


\* the places of Reconcile after ensureWorktree has returned nil
AfterEnsure == {"inject", "cacheLoad", "cacheSave", "notify"}

\* a setup that got past step 1 goes on through steps 2 and 3, whatever
\* they log, and returns success
PastEnsureSucceeds ==
  \A w \in WorkerIds :
    (workers[w].kind = "setup" /\ workers[w].pc \in AfterEnsure /\ workers'[w] # workers[w]) =>
      /\ workers'[w].pc \in AfterEnsure \cup {"ret"}
      /\ workers'[w].key = workers[w].key
      /\ workers[w].logged \subseteq workers'[w].logged
      /\ workers'[w].pc = "ret" => workers'[w].result = "success"

\* a Reconcile that has logged a failure of injection, cache write or
\* notification has returned success
LoggedNotReturned ==
  \A w \in WorkerIds :
    (At(w, "setup", "ret") /\ workers[w].logged # {}) => workers[w].result = "success"

\* the item of such a Reconcile leaves the queue when the worker reports:
\* it is not kept for another attempt
LoggedNotRetried ==
  \A w \in WorkerIds :
    (At(w, "setup", "ret") /\ workers[w].logged # {} /\ workers'[w] = Idle) =>
      workers[w].key \notin QKeys(setupQueue')

Backlog == [i \in 1..(QueueCapacity - 1) |-> Review(10 + i, RepoX, "alice", "t")]

\* the daemon after a first poll that found the backlog, before any
\* dispatch; the service now reports two pull requests of repository a
InitPollFull ==
  /\ LET st == PollLoop([seen |-> {}, data |-> EmptyMap, queue |-> {}, sent |-> {}],
                        Backlog, Config(Watch(1, 2, 0)))
     IN /\ seenPRs = st.seen
        /\ prData = st.data
        /\ setupQueue = st.queue
        /\ sent = st.sent
        /\ lastCheck = SavedState(st.seen, Len(Backlog))
  /\ remote = {ReviewA1, ReviewA2}
  /\ cfg = Config(Watch(1, 2, 0))
  /\ concurrency = GetConcurrency(cfg.Watch)
  /\ maxRetries = GetMaxRetries(cfg.Watch)
  /\ mainpc = "idle"
  /\ cleanupQueue = {}
  /\ worktrees = {} /\ docs = {} /\ prCache = EmptyMap
  /\ gitMu = FALSE
  /\ workers = [w \in WorkerIds |-> Idle]
  /\ HostOff

SpecPollFull == InitPollFull /\ [][Next]_vars

\* whatever the response, the poll goes through all of it: every pull
\* request of the response is seen afterwards, also one by a configured
\* author whose key the full queue refused, and its payload is stored
RefusedIsSeen ==
  \A reviews \in ReviewLists(remote) :
    LET after == Polled(reviews)
    IN /\ after.seen = seenPRs \cup {SeenKey(reviews[i]) : i \in 1..Len(reviews)}
       /\ Cardinality(after.queue) <= QueueCapacity
       /\ \A i \in 1..Len(reviews) :
            LET pr == reviews[i]
            IN (SeenKey(pr) \notin seenPRs /\ pr.Author \in cfg.Authors) =>
                 /\ PollKey(pr) \in DOMAIN after.data
                 /\ PollKey(pr) \notin QKeys(after.queue) =>
                      Cardinality(after.queue) = QueueCapacity

\* a key whose number is in the seen set does not come into the setup queue
SeenNotEnqueued ==
  \A key \in QKeys(setupQueue') \ QKeys(setupQueue) :
    Itoa(ParsePRKey(key).number) \notin seenPRs

\* C31: when the setup queue refuses the poller's enqueue (queue full) the
\* poll goes on with the remaining pull requests, the refused one is added
\* to the seen set and persisted all the same, and no later poll enqueues it.
C31_RefusedStillSeen ==
  /\ [](RefusedIsSeen /\ SeenIsSaved)
  /\ [][SeenNotEnqueued]_vars

\* the queue is full with PR 1 in it, PR 2 was refused and is in the seen
\* set of the checkpoint
C31_Witness ==
  /\ Cardinality(setupQueue) = QueueCapacity
  /\ MakePRKey(RepoA, 1) \in QKeys(setupQueue)
  /\ MakePRKey(RepoA, 2) \notin QKeys(setupQueue)
  /\ MakePRKey(RepoA, 2) \in DOMAIN prData
  /\ Itoa(2) \in LoadSeenPRs(lastCheck)


\* every key in the setup queue, and every key a setup worker holds, has its
\* payload in the reconciler, which is the pull request of that number; a
\* setup that returned a terminal error had a malformed key or a repository
\* the configuration does not know
QueuedHasPayload ==
  /\ \A key \in QKeys(setupQueue) :
       /\ key \in DOMAIN prData
       /\ prData[key].Number = ParsePRKey(key).number
  /\ \A w \in WorkerIds :
       workers[w].kind = "setup" =>
         /\ workers[w].key \in DOMAIN prData
         /\ (workers[w].pc = "ret" /\ workers[w].result = "terminal") =>
              \/ ParsePRKey(workers[w].key).err
              \/ RepoBasePath(cfg, ParsePRKey(workers[w].key).repo) = ""

\* a payload stays as long as the process lives: the map loses a key only
\* when the daemon starts anew, with an empty queue
PayloadsKept ==
  \/ \A key \in DOMAIN prData : key \in DOMAIN prData' /\ prData'[key] = prData[key]
  \/ prData' = EmptyMap /\ setupQueue' = {}

\* C32: every key present in the setup queue has a buffered payload in the
\* setup reconciler of the same process: the poller stores the payload
\* before it enqueues the key and payloads are never deleted, so that no
\* setup item enqueued by the poller fails with the terminal missing-payload
\* error.
C32_QueuedHasPayload == [](QueuedHasPayload) /\ [][PayloadsKept]_vars

\* the setup of the key the poller enqueued has found its payload and is at
\* work on the worktree
C32_Witness ==
  /\ At(1, "setup", "stat1")
  /\ workers[1].key = MakePRKey(RepoM, 1)
  /\ workers[1].title = prData[workers[1].key].Title
  /\ MakePRKey(RepoM, 1) \in QKeys(setupQueue)


\* ------------------------------------------------------------------------
\* State files that are damaged while the daemon runs or is down
\* ------------------------------------------------------------------------
\* last_check.json is cut short: what is left of it does not parse
DamageCheck ==
  /\ ~Unreadable(lastCheck)
  /\ lastCheck' = [PRCount |-> lastCheck.PRCount, SeenPRs |-> lastCheck.SeenPRs,
                   unreadable |-> TRUE]
  /\ UNCHANGED <<hostVars, remote, cfg, concurrency, maxRetries, mainpc, seenPRs,
                 queueVars, prData, worktrees, docs, prCache, gitMu, workers, sent>>

\* pr_cache.json is damaged in the same way
DamageCache ==
  /\ ~Garbled(prCache)
  /\ prCache' = MapSet(prCache, GarbageKey, [Title |-> "", Author |-> ""])
  /\ UNCHANGED <<loopVars, queueVars, prData, worktrees, docs, gitMu, workers, sent>>

NextDamage == DamageCheck \/ DamageCache \/ Restart \/ Next

\* one pull request, one setup worker
SpecDamage ==
  /\ Started({ReviewA1}, {Config(Watch(1, 2, 0))})
  /\ [][NextDamage]_vars

\* a checkpoint that cannot be parsed gives an empty seen set, a cache that
\* cannot be parsed an empty cache
DamagedIsEmpty ==
  /\ Unreadable(lastCheck) => LoadSeenPRs(lastCheck) = {}
  /\ Garbled(prCache) => PrcacheLoad(prCache) = EmptyMap

\* with the checkpoint unreadable, a step that changes the seen set is the
\* start of the daemon with an empty seen set, or a poll; and the poll of a
\* daemon with an empty seen set replaces the file by a checkpoint of
\* exactly the pull requests of that poll
CheckReplaced ==
  Unreadable(lastCheck) =>
    /\ seenPRs' # seenPRs => (seenPRs' = {} /\ mainpc' = "idle") \/ lastCheck' # lastCheck
    /\ lastCheck' # lastCheck =>
         /\ ~Unreadable(lastCheck')
         /\ lastCheck'.SeenPRs = seenPRs'
         /\ seenPRs = {} => Cardinality(lastCheck'.SeenPRs) = lastCheck'.PRCount

\* a Set that finds the cache unreadable goes on from an empty cache and
\* writes a cache of exactly its own entry, and Reconcile goes on
CacheReplaced ==
  \A w \in WorkerIds :
    /\ (At(w, "setup", "cacheLoad") /\ Garbled(prCache) /\ workers'[w] # workers[w]) =>
         workers'[w].pc = "cacheSave" /\ workers'[w].loaded = EmptyMap
    /\ (At(w, "setup", "cacheSave") /\ workers[w].loaded = EmptyMap
          /\ workers'[w] # workers[w]) =>
         /\ workers'[w].pc = "notify"
         /\ prCache' # prCache =>
              /\ DOMAIN prCache' = {CacheKey(workers[w].repo, workers[w].number)}
              /\ prCache'[CacheKey(workers[w].repo, workers[w].number)].Title =
                   workers[w].title

\* C33: a state file that cannot be read or parsed is treated as empty and
\* replaced by the next write: with last_check.json unreadable the daemon
\* starts with an empty seen set and the next poll writes a checkpoint of
\* exactly the pull requests of that poll; with pr_cache.json unreadable a
\* Set yields a cache of exactly the one new entry; neither returns an error
\* or stops the daemon.
C33_DamagedFilesAreEmpty ==
  /\ [](DamagedIsEmpty)
  /\ [][CheckReplaced /\ CacheReplaced]_vars

\* the daemon was started on an unreadable checkpoint and its poll has
\* written one with its single pull request, and the setup that found the
\* cache unreadable has written a cache of its one entry
C33_Witness ==
  /\ lastCheck = SavedState({Itoa(1)}, 1)
  /\ <<"repeated", <<"review", 1>>>> \in sent
  /\ DOMAIN prCache = {CacheKey(RepoA, 1)}
  /\ \E w \in WorkerIds : At(w, "setup", "notify") /\ workers[w].loaded = EmptyMap


\* ------------------------------------------------------------------------
\* internal/worktree/lock.go: stale index.lock files
\* ------------------------------------------------------------------------
MaxFields == 2

\* the whitespace-separated fields an index.lock may hold: the decimal text
\* of a pid, or a word that is no integer
LockFields == {Itoa(p) : p \in Pids} \cup {<<"x">>}

LockTexts == UNION {[1..n -> LockFields] : n \in 0..MaxFields}

\* the index.lock of the main repository and that of one of its worktrees
LockPaths == {"main", "worktree"}

LockFile(path, readable, fields) ==
  [path |-> path, readable |-> readable, fields |-> fields]

\* syscall.Kill(pid, 0) returns nil
KillZero(pid) == pid \in Pids /\ Alive(pid)

\* the loop of removeStaleLock over strings.Fields: a field that is no
\* integer is skipped, a live pid returns, a dead one breaks; TRUE when the
\* function goes on to os.Remove
RECURSIVE StaleFields(_)
StaleFields(fields) ==
  IF fields = <<>> THEN TRUE
  ELSE IF ~Atoi(Head(fields)).ok THEN StaleFields(Tail(fields))
  ELSE ~KillZero(Atoi(Head(fields)).n)

\* removeStaleLock removes the file
RemoveStaleLock(lock) == lock.readable /\ StaleFields(lock.fields)

\* a git process, or anything else, leaves an index.lock behind
WriteLock(path, readable, fields) ==
  /\ docs = {}
  /\ docs' = {LockFile(path, readable, fields)}
  /\ UNCHANGED <<procs, pidFile, starts, configFile, recCfg, tickers>>
  /\ UNCHANGED <<remote, cfg, concurrency, maxRetries, mainpc, setupQueue, cleanupQueue,
                 prData, seenPRs, lastCheck, worktrees, prCache, gitMu, workers, sent>>

\* a process comes into being, or ends
ProcToggle(p) ==
  /\ procs' = [procs EXCEPT ![p].pc = IF Alive(p) THEN "none" ELSE "loop"]
  /\ UNCHANGED <<pidFile, starts, configFile, recCfg, tickers, loopState>>

\* CleanStaleLocks: the locks of the worktree directories, then the main one;
\* nothing at all when .git/worktrees cannot be listed
CleanStaleLocks(listed) ==
  /\ docs # {}
  /\ docs' = IF listed THEN {lock \in docs : ~RemoveStaleLock(lock)} ELSE docs
  /\ (listed /\ docs' # docs) => sent' = sent \cup {<<"warn", "stale lock">>}
  /\ ~(listed /\ docs' # docs) => sent' = sent
  /\ UNCHANGED <<procs, pidFile, starts, configFile, recCfg, tickers>>
  /\ UNCHANGED <<remote, cfg, concurrency, maxRetries, mainpc, setupQueue, cleanupQueue,
                 prData, seenPRs, lastCheck, worktrees, prCache, gitMu, workers>>

NextLocks ==
  \/ \E path \in LockPaths, readable \in BOOLEAN, fields \in LockTexts :
       WriteLock(path, readable, fields)
  \/ \E p \in Pids : ProcToggle(p)
  \/ \E listed \in BOOLEAN : CleanStaleLocks(listed)

\* no lock and no process
SpecLocks ==
  /\ Booted({}, {Config(Watch(1, 2, 0))})
  /\ worktrees = {}
  /\ pidFile = 0
  /\ procs = [p \in Pids |-> NoProc]
  /\ starts = <<>>
  /\ configFile = "missing" /\ recCfg = <<>> /\ tickers = <<>>
  /\ [][NextLocks]_vars

\* the fields that are integers, in their order
IntegerFields(fields) == SelectSeq(fields, IsInteger)

\* an owner can be read from the lock: it is readable and holds an integer
OwnerReadable(lock) == lock.readable /\ IntegerFields(lock.fields) # <<>>

\* the first integer of the lock
Owner(lock) == Atoi(Head(IntegerFields(lock.fields))).n

\* C34: CleanStaleLocks deletes an index.lock only if the first integer in the
\* file names a process to which signal 0 cannot be delivered; a lock whose
\* owning process is alive, and a lock from which no owner can be read, is
\* never deleted.
C34_OnlyDeadOwnersDeleted ==
  \A lock \in docs :
    RemoveStaleLock(lock) => OwnerReadable(lock) /\ ~KillZero(Owner(lock))


\* ------------------------------------------------------------------------
\* cmd/watch: the checkpoint of a poll
\* ------------------------------------------------------------------------
\* fmt.Printf("[%s] Error fetching reviews: %v\n", ...)
FetchError == <<"log", "Error fetching reviews">>

\* pollOnce with the line it prints when GetReviewRequests fails
PollReported ==
  /\ mainpc = "idle"
  /\ \/ /\ sent' = Send(sent, FetchError)
        /\ UNCHANGED <<seenPRs, prData, setupQueue, lastCheck>>
     \/ \E reviews \in ReviewLists(remote) :
          /\ seenPRs' = Polled(reviews).seen
          /\ prData' = Polled(reviews).data
          /\ setupQueue' = Polled(reviews).queue
          /\ sent' = Polled(reviews).sent
          /\ lastCheck' = SavedState(Polled(reviews).seen, Len(reviews))
  /\ UNCHANGED <<hostVars, cfg, remote, concurrency, maxRetries, mainpc, cleanupQueue,
                 worktrees, docs, prCache, gitMu, workers>>

NextCheckpoint ==
  \/ PollReported
  \/ Restart
  \/ ScanMergedPRs
  \/ DispatchTick
  \/ \E kind \in {"setup", "cleanup"} : Lease(kind)
  \/ \E w \in WorkerIds : Step(w)
  \/ \E w \in WorkerIds : Complete(w)
  \/ SetupDispatchReturn
  \/ CleanupDispatchReturn
  \/ Tick

SpecCheckpoint == Started({ReviewA1}, {Config(Watch(1, 2, 0))}) /\ [][NextCheckpoint]_vars

\* a poll has run in the step: its query failed, or it wrote its checkpoint
PollRan == Emitted(sent, sent', FetchError) \/ lastCheck' # lastCheck

\* last_check.json exists and holds the whole seen set
CheckpointWritten ==
  /\ lastCheck' # NoCheck
  /\ lastCheck'.PRCount >= 0
  /\ lastCheck'.SeenPRs = seenPRs'

\* C35: every poll, the initial one included and also one whose remote query
\* fails, ends with the checkpoint record written: afterwards last_check.json
\* holds that poll's observed count and the whole current seen set.
C35_PollWritesCheckpoint == [][PollRan => CheckpointWritten]_vars


\* ------------------------------------------------------------------------
\* cmd/watch: the daemon whose tickers keep firing and whose workers run
\* ------------------------------------------------------------------------
\* the dispatch ticker fires again and again, time passes, the dispatchers
\* and the goroutines they start are scheduled
LiveDispatch ==
  /\ WF_vars(DispatchTick)
  /\ WF_vars(Tick)
  /\ WF_vars(SetupDispatchReturn)
  /\ WF_vars(CleanupDispatchReturn)
  /\ \A kind \in {"setup", "cleanup"} : WF_vars(Lease(kind))
  /\ \A w \in WorkerIds : WF_vars(Step(w)) /\ WF_vars(Complete(w))

SpecLive == InitRetry /\ [][Next]_vars /\ LiveDispatch

\* the keys the poller and the scan can enqueue
TrackedKeys == {MakePRKey(RepoA, 1), MakePRKey(RepoX, 3)}

\* a dispatch runs
Dispatching == mainpc \in {"setup", "cleanup"}

\* an item leaves a queue with the Complete of a reconciliation of its key
\* that was successful, or failed for good, or failed on the last attempt
\* allowed
LeavesBy(kind) ==
  \A key \in QKeys(QueueOf(kind)) \ QKeys(QueueOfNext(kind)) :
    \E w \in InFlight(kind) :
      /\ Completes(w)
      /\ workers[w].key = key
      /\ \/ workers[w].result \in {"success", "terminal"}
         \/ QItem(QueueOf(kind), key).attempts + 1 >= MaxAttempts(kind)

\* C36: provided dispatch ticks keep firing, every dispatch invocation
\* returns, also when the queue holds only items that are still backing off,
\* and every key ever enqueued eventually leaves its queue: by success, by a
\* terminal error, or by reaching the retry cap.
C36_DispatchReturnsKeysLeave ==
  /\ Dispatching ~> (mainpc = "idle")
  /\ \A key \in TrackedKeys :
       /\ (key \in QKeys(setupQueue)) ~> (key \notin QKeys(setupQueue))
       /\ (key \in QKeys(cleanupQueue)) ~> (key \notin QKeys(cleanupQueue))
  /\ [][LeavesBy("setup") /\ LeavesBy("cleanup")]_vars

\* both dispatches have returned while the one item of the setup queue,
\* which has one attempt left, is backing off
C36_Witness ==
  /\ mainpc = "idle"
  /\ workers = [w \in WorkerIds |-> Idle]
  /\ \E it \in setupQueue :
       /\ setupQueue = {it}
       /\ it.notBefore > 0
       /\ it.attempts = MaxAttempts("setup") - 1


\* ------------------------------------------------------------------------
\* cmd/watch: one handler of the select loop at a time
\* ------------------------------------------------------------------------
\* a reconciliation runs only inside the dispatch of its queue
RunsInsideDispatch ==
  \A w \in WorkerIds : workers[w].pc # "idle" => mainpc = workers[w].kind

\* the poll handler and the cleanup scan act while the loop is in no
\* dispatch and no reconciliation runs: the configuration of the daemon and
\* of the reconcilers, the payloads, the seen set and the checkpoint are
\* written, and the scan enqueues, only then
WritesWhileQuiet ==
  (\/ cfg' # cfg \/ recCfg' # recCfg \/ tickers' # tickers
   \/ prData' # prData \/ seenPRs' # seenPRs \/ lastCheck' # lastCheck
   \/ ~(QKeys(setupQueue') \subseteq QKeys(setupQueue))
   \/ ~(QKeys(cleanupQueue') \subseteq QKeys(cleanupQueue))) =>
    /\ mainpc = "idle" /\ mainpc' = "idle"
    /\ workers = [w \in WorkerIds |-> Idle]
    /\ workers' = workers

\* the setup dispatch, then the cleanup dispatch, then the loop again, each
\* left when the reconciliations it started have finished
DispatchesInTurn ==
  mainpc' # mainpc =>
    /\ <<mainpc, mainpc'>> \in {<<"idle", "setup">>, <<"setup", "cleanup">>, <<"cleanup", "idle">>}
    /\ workers = [w \in WorkerIds |-> Idle]
    /\ workers' = workers

\* C37: the handlers of the control loop never overlap: the poll handler
\* (config reload, SetConfig, StorePRData, seen-set update), the cleanup scan
\* and the two dispatches run one at a time, setup dispatch before cleanup
\* dispatch, and a dispatch returns to the loop only after every
\* reconciliation it started has finished; so no reconciliation runs while
\* the configuration or the payload map is being written.
C37_HandlersNeverOverlap ==
  /\ [](RunsInsideDispatch)
  /\ [][WritesWhileQuiet /\ DispatchesInTurn]_vars

\* a setup reconciliation runs in the setup dispatch after a reload has
\* given the reconcilers another configuration and the poll has stored the
\* payload
C37_Witness ==
  /\ mainpc = "setup"
  /\ \E w \in InFlight("setup") :
       /\ workers[w].pc = "fetch"
       /\ workers[w].key \in DOMAIN prData
  /\ recCfg.setup = cfg
  /\ configFile = File("yaml", cfg)
  /\ cfg.Authors # {"alice"}


\* ------------------------------------------------------------------------
\* cmd/watch: the pid file under start, stop, status and shutdown
\* ------------------------------------------------------------------------
\* watchStatus, the call of watchIsRunning: the pid file of a process that is
\* gone is removed
Status ==
  /\ pidFile' = IF IsRunning THEN pidFile ELSE 0
  /\ UNCHANGED <<procs, starts, configFile, recCfg, tickers, loopState>>

NextPidFile ==
  \/ \E i \in StartIds : StartBegin(i) \/ StartCheck(i) \/ StartSpawn(i) \/ StartWrite(i)
  \/ \E p \in Pids : DaemonBoot(p)
  \/ Stop
  \/ Status
  \/ \E p \in Pids : Cancel(p)
  \/ \E p \in Pids : Exit(p)

\* no daemon and no pid file; daemons are started with `zen watch start` only
SpecPidFile ==
  /\ Booted({}, {Config(Watch(1, 2, 0))})
  /\ worktrees = {}
  /\ pidFile = 0
  /\ procs = [p \in Pids |-> NoProc]
  /\ starts = [i \in StartIds |-> [pc |-> "off", pid |-> 0]]
  /\ configFile = "missing" /\ recCfg = <<>> /\ tickers = <<>>
  /\ [][NextPidFile]_vars

\* the daemon p is in its loop and no SIGTERM has been sent to it
RunningUnsignalled(p) == procs[p].pc = "loop" /\ ~procs[p].sig /\ ~procs[p].ctx

\* watch.pid holds the pid of every such daemon
PidFileNamesDaemon == \A p \in Pids : RunningUnsignalled(p) => pidFile = p

\* a daemon that leaves its loop removes no pid file but its own
ShutdownKeepsNewer ==
  \A p \in Pids :
    (procs[p].pc = "loop" /\ procs'[p].pc = "exited") => pidFile \in {0, p}

\* C38: for every interleaving of start, stop, status and daemon shutdown,
\* whenever a daemon process is running and has not been sent a termination
\* signal, watch.pid exists and contains that daemon's pid; in particular a
\* daemon that is shutting down never removes the pid file written for a
\* newer daemon.
C38_PidFileNamesDaemon == [](PidFileNamesDaemon) /\ [][ShutdownKeepsNewer]_vars


\* ------------------------------------------------------------------------
\* cmd/watch: what the daemon owes a pull request it has marked seen
\* ------------------------------------------------------------------------
\* the worktree of the pull request is on disk, or its key is in the setup
\* queue, waiting or leased
Served(pr, q, wts) ==
  \/ PollKey(pr) \in QKeys(q)
  \/ \E d \in wts : d.path = WorktreePath(BaseB, pr.RepoName, pr.Number)

\* the step drops the item of the pull request: its reconciliation ends
\* with an error that the queue does not retry, which the dispatcher logs
DroppedInStep(pr) ==
  \E w \in InFlight("setup") :
    /\ Completes(w)
    /\ workers[w].key = PollKey(pr)
    /\ workers[w].result # "success"

\* a pull request by a configured author that the checkpoint holds is served
\* after every step, unless it was unserved already, or the step drops its
\* item, or refuses it a place in the full queue, or removes a worktree
SeenStaysServed ==
  \A pr \in remote :
    (/\ IsAuthor(cfg, pr.Author)
     /\ SeenKey(pr) \in LoadSeenPRs(lastCheck')
     /\ ~Served(pr, setupQueue', worktrees')) =>
      \/ SeenKey(pr) \in LoadSeenPRs(lastCheck) /\ ~Served(pr, setupQueue, worktrees)
      \/ DroppedInStep(pr)
      \/ Cardinality(setupQueue) >= QueueCapacity
      \/ worktrees' # worktrees

\* C39: each pull request by a configured author that is in the persisted
\* seen set either has its worktree on disk, or has a setup item pending or
\* in flight, or was dropped with a logged error; in particular stopping and
\* restarting the daemon between the poll that marked it seen and the
\* successful setup does not leave it seen with no worktree and no pending
\* setup item.
C39_SeenIsServed == [][SeenStaysServed]_vars



\* ------------------------------------------------------------------------
\* internal/prcache: Set from two dispatch workers
\* ------------------------------------------------------------------------
\* the setup of worker w has returned success, its cache write not failed
SetupCached(w) ==
  /\ At(w, "setup", "ret")
  /\ workers[w].result = "success"
  /\ "cache" \notin workers[w].logged

\* the cache holds the entry the setup of worker w has set
HoldsEntryOf(w) ==
  LET ck == CacheKey(workers[w].repo, workers[w].number)
  IN ck \in DOMAIN prCache /\ prCache[ck].Title = workers[w].title

\* two setups of distinct keys have returned: the entries of both are there
BothCached ==
  \A w1, w2 \in WorkerIds :
    (w1 # w2 /\ SetupCached(w1) /\ SetupCached(w2) /\ workers[w1].key # workers[w2].key) =>
      HoldsEntryOf(w1) /\ HoldsEntryOf(w2)

\* no step takes an entry out of the cache, and an entry changes only with
\* the Set of its own key
EntriesKept ==
  \A ck \in DOMAIN prCache :
    /\ ck \in DOMAIN prCache'
    /\ prCache'[ck] # prCache[ck] =>
         \E w \in WorkerIds :
           /\ At(w, "setup", "cacheSave")
           /\ ck = CacheKey(workers[w].repo, workers[w].number)

\* C40: after two setup reconciliations for distinct keys have both returned
\* success, also when they ran in parallel on two dispatch workers, the
\* display cache holds the entries of both keys, and every entry that was in
\* the cache before is still there unchanged.
C40_BothEntriesCached == [](BothCached) /\ [][EntriesKept]_vars

====
